---- MODULE Spec2Model ----
(***************************************************************************)
(* A model of three parts of ICU4X:                                        *)
(*   - the BCP-47 language-identifier parser                               *)
(*     (components/locid/src/parser/langid.rs): the general path           *)
(*     parse_language_identifier_from_iter and the restricted, const path  *)
(*     parse_locale_with_single_variant_single_keyword_unicode_extension_  *)
(*     from_iter;                                                          *)
(*   - canonical decomposition, composition and the combining-class lookup *)
(*     (components/normalizer/src/properties.rs);                          *)
(*   - the grapheme cluster break iterators                                *)
(*     (experimental/segmenter/src/grapheme.rs).                           *)
(* A subtag is a sequence of bytes (ASCII codes).  The input of a parse is *)
(* the sequence of subtags the SubtagIterator yields.                      *)
(***************************************************************************)
EXTENDS Integers, Sequences, FiniteSets, TLC

VARIABLES input, mode, phase, pass, first, g, r, ch, tval, sval, dec,
          comp, run, ctor, ccc, seg

vars == <<input, mode, phase, pass, first, g, r, ch, tval, sval, dec,
          comp, run, ctor, ccc, seg>>

parserVars == <<input, mode, phase, pass, first, g, r>>

decompVars == <<ch, tval, sval, dec>>

\* The composition, the stepwise decomposition, the construction, the
\* combining-class lookup and the segmentation iterators.
auxVars == <<comp, run, ctor, ccc, seg>>

----------------------------------------------------------------------------
(* Bounds of the model.                                                    *)

\* Longest input, in subtags, of the runs of both parser paths.
MaxSubtags == 4

\* Longest tail, in subtags, after the language of the restricted-path runs.
MaxExtSubtags == 4

\* Longest input, in chars or code units, of the first segmentation iterator.
MaxUnits == 3

----------------------------------------------------------------------------
(* Bytes and subtags.                                                      *)

None == <<>>

Max(a, b) == IF a >= b THEN a ELSE b

IsAsciiDigit(b) == b >= 48 /\ b <= 57

IsAsciiUpper(b) == b >= 65 /\ b <= 90

IsAsciiLower(b) == b >= 97 /\ b <= 122

IsAsciiAlphabetic(b) == IsAsciiUpper(b) \/ IsAsciiLower(b)

IsAsciiAlphanumeric(b) == IsAsciiAlphabetic(b) \/ IsAsciiDigit(b)

ToAsciiLowerByte(b) == IF IsAsciiUpper(b) THEN b + 32 ELSE b

ToAsciiUpperByte(b) == IF IsAsciiLower(b) THEN b - 32 ELSE b

AllAlphabetic(s) == \A i \in 1..Len(s) : IsAsciiAlphabetic(s[i])

AllDigit(s) == \A i \in 1..Len(s) : IsAsciiDigit(s[i])

AllAlphanumeric(s) == \A i \in 1..Len(s) : IsAsciiAlphanumeric(s[i])

ToAsciiLowercase(s) == [i \in 1..Len(s) |-> ToAsciiLowerByte(s[i])]

ToAsciiUppercase(s) == [i \in 1..Len(s) |-> ToAsciiUpperByte(s[i])]

ToAsciiTitlecase(s) ==
    [i \in 1..Len(s) |-> IF i = 1 THEN ToAsciiUpperByte(s[i]) ELSE ToAsciiLowerByte(s[i])]

\* The order of TinyAsciiStr: byte-wise lexicographic, a proper prefix first.
RECURSIVE BytesLess(_, _)
BytesLess(a, b) ==
    IF Len(b) = 0 THEN FALSE
    ELSE IF Len(a) = 0 THEN TRUE
    ELSE IF a[1] # b[1] THEN a[1] < b[1]
    ELSE BytesLess(Tail(a), Tail(b))

(* The subtags of the model's inputs.                                      *)
SubtagEn == <<101, 110>>

SubtagLatn == <<108, 97, 116, 110>>

SubtagUs == <<117, 115>>

SubtagFonipa == <<102, 111, 110, 105, 112, 97>>

SubtagAlalc97 == <<97, 108, 97, 108, 99, 57, 55>>

SubtagFonipaUpper == <<70, 79, 78, 73, 80, 65>>

Subtag1996 == <<49, 57, 57, 54>>

SubtagU == <<117>>

SubtagX == <<120>>

SubtagT == <<116>>

SubtagA == <<97>>

SubtagStar == <<42>>

SubtagA1 == <<97, 49>>

SubtagCa == <<99, 97>>

SubtagTrue == <<116, 114, 117, 101>>

\* en, latn, us, fonipa, alalc97, FONIPA, 1996, u and a1 (no language,
\* script, region or variant).
LangidSubtags ==
    {SubtagEn, SubtagLatn, SubtagUs, SubtagFonipa, SubtagAlalc97,
     SubtagFonipaUpper, Subtag1996, SubtagU, SubtagA1}

\* u, x, t, a, * (no extension type), ca, a1 (a malformed key), fonipa,
\* alalc97 and true.
ExtensionSubtags ==
    {SubtagU, SubtagX, SubtagT, SubtagA, SubtagStar, SubtagCa, SubtagA1,
     SubtagFonipa, SubtagAlalc97, SubtagTrue}

BoundedSeq(S, n) == UNION {[1..k -> S] : k \in 0..n}

----------------------------------------------------------------------------
(* The subtag types: subtags::Language, Script, Region, Variant and the    *)
(* Unicode extension's ExtensionType, Attribute, Key and Value.            *)

LanguageOk(s) == Len(s) \in {2, 3, 5, 6, 7, 8} /\ AllAlphabetic(s)

LanguageFromBytes(s) == ToAsciiLowercase(s)

ScriptOk(s) == Len(s) = 4 /\ AllAlphabetic(s)

ScriptFromBytes(s) == ToAsciiTitlecase(s)

RegionOk(s) == (Len(s) = 2 /\ AllAlphabetic(s)) \/ (Len(s) = 3 /\ AllDigit(s))

RegionFromBytes(s) == ToAsciiUppercase(s)

VariantOk(s) ==
    /\ AllAlphanumeric(s)
    /\ \/ Len(s) \in 5..8
       \/ Len(s) = 4 /\ IsAsciiDigit(s[1])

VariantFromBytes(s) == ToAsciiLowercase(s)

\* ExtensionType::from_bytes_manual_slice: "Err" stands for
\* Err(InvalidExtension).
ExtensionTypeFromBytes(s) ==
    IF Len(s) # 1 THEN "Err"
    ELSE LET b == ToAsciiLowerByte(s[1])
         IN  IF b = 117 THEN "Unicode"
             ELSE IF b = 116 THEN "Transform"
             ELSE IF b = 120 THEN "Private"
             ELSE IF IsAsciiAlphanumeric(b) THEN "Other"
             ELSE "Err"

AttributeOk(s) == Len(s) \in 3..8 /\ AllAlphanumeric(s)

KeyOk(s) == Len(s) = 2 /\ IsAsciiAlphanumeric(s[1]) /\ IsAsciiAlphabetic(s[2])

KeyFromBytes(s) == ToAsciiLowercase(s)

\* Value::parse_subtag_from_bytes_manual_slice: "Err" is Err(InvalidExtension),
\* "None" is Ok(None) (the subtag `true`), "Some" is Ok(Some(t)).
ValueSubtagKind(s) ==
    IF ~(Len(s) \in 3..8) THEN "Err"
    ELSE IF s = SubtagTrue THEN "None"
    ELSE IF AllAlphanumeric(s) THEN "Some"
    ELSE "Err"

ValueSubtagFromBytes(s) == ToAsciiLowercase(s)

----------------------------------------------------------------------------
(* The general path: parse_language_identifier_from_iter.                  *)
(* A parse state: pc ("start" before the language is read, "loop" in the   *)
(* main loop, "done" after the return), idx the number of subtags the      *)
(* iterator has yielded by next(), seen the largest index of a subtag      *)
(* that next() or peek() has returned, position, the fields collected so   *)
(* far, res the returned value ("Ok" or the ParserError).                  *)

GenInit ==
    [pc |-> "start", idx |-> 0, seen |-> 0, position |-> "Script",
     language |-> None, script |-> None, region |-> None,
     variants |-> <<>>, res |-> "none"]

\* Vec::binary_search over the half-open range lo..hi, 0-based:
\* found with the index of the match, or not found with the insertion index.
RECURSIVE BinarySearchIn(_, _, _, _)
BinarySearchIn(vs, v, lo, hi) ==
    IF lo >= hi THEN [found |-> FALSE, idx |-> lo]
    ELSE LET mid == lo + ((hi - lo) \div 2)
         IN  IF vs[mid + 1] = v THEN [found |-> TRUE, idx |-> mid]
             ELSE IF BytesLess(vs[mid + 1], v) THEN BinarySearchIn(vs, v, mid + 1, hi)
             ELSE BinarySearchIn(vs, v, lo, mid)

BinarySearch(vs, v) == BinarySearchIn(vs, v, 0, Len(vs))

\* A plausible slip: every new variant is pushed at the end.
InsertAtEnd(vs, idx, v) == Append(vs, v)

\* A plausible slip: every new variant is inserted at index 0.
InsertAtFront(vs, idx, v) == <<v>> \o vs

\* Vec::insert(idx, v), idx 0-based.
VecInsert(vs, idx, v) == SubSeq(vs, 1, idx) \o <<v>> \o SubSeq(vs, idx + 1, Len(vs))

\* if let Err(idx) = variants.binary_search(&v) { variants.insert(idx, v); }
InsertIfAbsent(vs, v) ==
    LET b == BinarySearch(vs, v)
    IN  IF b.found THEN vs ELSE VecInsert(vs, b.idx, v)

\* A plausible slip: the test is lost and no subtag stops the loop.
GenNeverStops(md, subtag) == FALSE

\* A plausible slip: the mode test is forgotten.
GenStopsInEveryMode(md, subtag) == Len(subtag) = 1

\* mode != ParserMode::LanguageIdentifier && subtag.len() == 1
GenStopsAtSingleton(md, subtag) == md # "LanguageIdentifier" /\ Len(subtag) = 1

GenOk(st) == [st EXCEPT !.pc = "done", !.res = "Ok"]

GenErr(st, e) == [st EXCEPT !.pc = "done", !.res = e]

\* A plausible slip: the loop body does not move the iterator.
GenStays(st) == st

\* iter.next() at the end of the loop body
GenAdvance(st) == [st EXCEPT !.idx = @ + 1]

\* A plausible slip: Partial mode fails like the other modes.
GenAlwaysFails(st, md) == GenErr(st, "InvalidSubtag")

\* A plausible slip: every mode breaks like Partial mode.
GenAlwaysBreaks(st, md) == GenOk(st)

\* else if mode == Partial { break } else { return Err(InvalidSubtag) }
GenBreakOrFail(st, md) ==
    IF md = "Partial" THEN GenOk(st) ELSE GenErr(st, "InvalidSubtag")

\* A plausible slip: a missing first subtag is reported as InvalidSubtag.
GenLanguageWrongError(st, in) ==
    IF Len(in) = 0 THEN GenErr(st, "InvalidSubtag")
    ELSE LET nx == [st EXCEPT !.idx = 1, !.seen = 1]
         IN  IF LanguageOk(in[1])
             THEN [nx EXCEPT !.language = LanguageFromBytes(in[1]), !.pc = "loop"]
             ELSE GenErr(nx, "InvalidSubtag")

\* The language: iter.next() and Language::from_bytes(subtag)?
GenLanguage(st, in) ==
    IF Len(in) = 0 THEN GenErr(st, "InvalidLanguage")
    ELSE LET nx == [st EXCEPT !.idx = 1, !.seen = 1]
         IN  IF LanguageOk(in[1])
             THEN [nx EXCEPT !.language = LanguageFromBytes(in[1]), !.pc = "loop"]
             ELSE GenErr(nx, "InvalidLanguage")

\* A plausible slip: the Variant position inserts like the other positions
\* and a duplicate is silently dropped.
GenVariantNoDuplicateCheck(st, v) ==
    GenAdvance([st EXCEPT !.variants = InsertIfAbsent(st.variants, v)])

\* A plausible slip: a variant puts the position back to Script.
GenVariantRestartsPosition(st, v) ==
    GenAdvance([st EXCEPT !.variants = InsertIfAbsent(st.variants, v),
                          !.position = "Script"])

\* A variant in Variant position: inserted, or Err(InvalidSubtag) when present.
GenVariantInVariantPosition(st, v) ==
    LET b == BinarySearch(st.variants, v)
    IN  IF ~b.found
        THEN GenAdvance([st EXCEPT !.variants = VecInsert(st.variants, b.idx, v)])
        ELSE GenErr(st, "InvalidSubtag")

\* One evaluation of the while condition and, when peek() yields a subtag,
\* of the loop body; the return of Ok(LanguageIdentifier { .. }) after the
\* loop is part of the step that leaves it.
GenLoop(st, in, md) ==
    IF st.idx >= Len(in) THEN GenOk(st)
    ELSE
      LET subtag == in[st.idx + 1]
          pk == [st EXCEPT !.seen = Max(st.seen, st.idx + 1)]
      IN
      IF GenStopsAtSingleton(md, subtag) THEN GenOk(pk)
      ELSE IF pk.position = "Script" THEN
        IF ScriptOk(subtag)
        THEN GenAdvance([pk EXCEPT !.script = ScriptFromBytes(subtag),
                                   !.position = "Region"])
        ELSE IF RegionOk(subtag)
        THEN GenAdvance([pk EXCEPT !.region = RegionFromBytes(subtag),
                                   !.position = "Variant"])
        ELSE IF VariantOk(subtag)
        THEN GenAdvance([pk EXCEPT
                 !.variants = InsertIfAbsent(pk.variants, VariantFromBytes(subtag)),
                 !.position = "Variant"])
        ELSE GenBreakOrFail(pk, md)
      ELSE IF pk.position = "Region" THEN
        IF RegionOk(subtag)
        THEN GenAdvance([pk EXCEPT !.region = RegionFromBytes(subtag),
                                   !.position = "Variant"])
        ELSE IF VariantOk(subtag)
        THEN GenAdvance([pk EXCEPT
                 !.variants = InsertIfAbsent(pk.variants, VariantFromBytes(subtag)),
                 !.position = "Variant"])
        ELSE GenBreakOrFail(pk, md)
      ELSE IF VariantOk(subtag)
        THEN GenVariantInVariantPosition(pk, VariantFromBytes(subtag))
      ELSE GenBreakOrFail(pk, md)

GenStep(st, in, md) ==
    IF st.pc = "start" THEN GenLanguage(st, in) ELSE GenLoop(st, in, md)

\* parse_language_identifier(t, mode): the whole parse as a function.
RECURSIVE GenRun(_, _, _)
GenRun(st, in, md) ==
    IF st.pc = "done" THEN st ELSE GenRun(GenStep(st, in, md), in, md)

parse_language_identifier(in, md) == GenRun(GenInit, in, md)

----------------------------------------------------------------------------
(* The restricted path:                                                    *)
(* parse_locale_with_single_variant_single_keyword_unicode_extension_      *)
(* from_iter.  pc is "start", "loop" (the main loop), "ext" (the extension *)
(* section before the keyword loop), "extloop" (the keyword loop), "done". *)
(* keyword is None or <<key, type>>, type None when the key has no type.   *)
(* asserts is FALSE once a debug_assert! of the path has failed.           *)

RsInit ==
    [pc |-> "start", idx |-> 0, seen |-> 0, position |-> "Script",
     language |-> None, script |-> None, region |-> None, variant |-> None,
     key |-> None, current_type |-> None, keyword |-> None,
     asserts |-> TRUE, res |-> "none"]

RsOk(st) == [st EXCEPT !.pc = "done", !.res = "Ok"]

RsErr(st, e) == [st EXCEPT !.pc = "done", !.res = e]

\* iter = iter.next_manual().0
RsAdvance(st) == [st EXCEPT !.idx = @ + 1]

\* !matches!(mode, ParserMode::LanguageIdentifier) && end - start == 1
RsStopsAtSingleton(md, subtag) == md # "LanguageIdentifier" /\ Len(subtag) = 1

\* After the main loop: the extension section is entered in Locale mode only.
RsAfterLoop(st, md) ==
    IF md = "Locale" THEN [st EXCEPT !.pc = "ext"] ELSE RsOk(st)

\* else if matches!(mode, Partial) { break } else { return Err(InvalidSubtag) }
RsBreakOrFail(st, md) ==
    IF md = "Partial" THEN RsAfterLoop(st, md) ELSE RsErr(st, "InvalidSubtag")

\* The language: iter.next_manual() and Language::from_bytes_manual_slice.
RsLanguage(st, in) ==
    IF Len(in) = 0 THEN RsErr(st, "InvalidLanguage")
    ELSE LET nx == [st EXCEPT !.idx = 1, !.seen = 1]
         IN  IF LanguageOk(in[1])
             THEN [nx EXCEPT !.language = LanguageFromBytes(in[1]), !.pc = "loop"]
             ELSE RsErr(nx, "InvalidLanguage")

\* A plausible slip: the variant is recognised but not stored.
RsFirstVariantDropped(st, v) == RsAdvance([st EXCEPT !.position = "Variant"])

\* A plausible slip: the variant is stored but the position stays.
RsFirstVariantKeepsPosition(st, v) ==
    RsAdvance([st EXCEPT !.asserts = @ /\ (st.variant = None), !.variant = v])

\* A variant in Script or Region position: debug_assert!(variant.is_none()).
RsFirstVariant(st, v) ==
    RsAdvance([st EXCEPT !.asserts = @ /\ (st.variant = None),
                         !.variant = v, !.position = "Variant"])

\* A variant in Variant position: Err(InvalidSubtag) when one is stored.
RsVariantInVariantPosition(st, v) ==
    LET a == [st EXCEPT !.asserts = @ /\ (st.position = "Variant")]
    IN  IF a.variant # None THEN RsErr(a, "InvalidSubtag")
        ELSE RsAdvance([a EXCEPT !.variant = v])

\* One evaluation of the main loop's condition and body.
RsLoop(st, in, md) ==
    IF st.idx >= Len(in) THEN RsAfterLoop(st, md)
    ELSE
      LET subtag == in[st.idx + 1]
          pk == [st EXCEPT !.seen = Max(st.seen, st.idx + 1)]
      IN
      IF RsStopsAtSingleton(md, subtag) THEN RsAfterLoop(pk, md)
      ELSE IF pk.position = "Script" THEN
        IF ScriptOk(subtag)
        THEN RsAdvance([pk EXCEPT !.script = ScriptFromBytes(subtag),
                                  !.position = "Region"])
        ELSE IF RegionOk(subtag)
        THEN RsAdvance([pk EXCEPT !.region = RegionFromBytes(subtag),
                                  !.position = "Variant"])
        ELSE IF VariantOk(subtag)
        THEN RsFirstVariant(pk, VariantFromBytes(subtag))
        ELSE RsBreakOrFail(pk, md)
      ELSE IF pk.position = "Region" THEN
        IF RegionOk(subtag)
        THEN RsAdvance([pk EXCEPT !.region = RegionFromBytes(subtag),
                                  !.position = "Variant"])
        ELSE IF VariantOk(subtag)
        THEN RsFirstVariant(pk, VariantFromBytes(subtag))
        ELSE RsBreakOrFail(pk, md)
      ELSE IF VariantOk(subtag)
        THEN RsVariantInVariantPosition(pk, VariantFromBytes(subtag))
      ELSE RsBreakOrFail(pk, md)

\* A plausible slip: the extensions the path cannot hold are skipped.
RsOtherExtensionIgnored(st) == RsOk(st)

\* Ok(_) => return Err(ParserError::InvalidSubtag): Transform, Private, Other.
RsOtherExtension(st) == RsErr(st, "InvalidSubtag")

\* After `u` is consumed: a well-formed attribute is Err(InvalidSubtag).
RsAttributeCheck(st, in) ==
    IF st.idx < Len(in)
    THEN LET pk == [st EXCEPT !.seen = Max(st.seen, st.idx + 1)]
         IN  IF AttributeOk(in[st.idx + 1]) THEN RsErr(pk, "InvalidSubtag")
             ELSE [pk EXCEPT !.pc = "extloop"]
    ELSE [st EXCEPT !.pc = "extloop"]

\* The head of the extension section (mode is Locale): the extension type of
\* the subtag the main loop stopped at.
RsExtension(st, in) ==
    IF st.idx >= Len(in) THEN RsOk(st)
    ELSE
      LET pk == [st EXCEPT !.seen = Max(st.seen, st.idx + 1)]
          ty == ExtensionTypeFromBytes(in[st.idx + 1])
      IN  IF ty = "Unicode" THEN RsAttributeCheck(RsAdvance(pk), in)
          ELSE IF ty = "Err" THEN RsErr(pk, "InvalidExtension")
          ELSE RsOtherExtension(pk)

\* if let Some(k) = key { keyword = Some((k, current_type)); } and the Ok.
RsKeywordOk(st) ==
    RsOk([st EXCEPT !.keyword = IF st.key # None
                                  THEN <<st.key, st.current_type>> ELSE None])

\* A plausible slip: a second key replaces the first.
RsKeyOverwrites(st, subtag) ==
    IF KeyOk(subtag) THEN RsAdvance([st EXCEPT !.key = KeyFromBytes(subtag)])
    ELSE RsErr(st, "InvalidExtension")

\* A subtag of length 2 in the keyword loop.
RsKey(st, subtag) ==
    IF st.key # None THEN RsErr(st, "InvalidSubtag")
    ELSE IF KeyOk(subtag) THEN RsAdvance([st EXCEPT !.key = KeyFromBytes(subtag)])
    ELSE RsErr(st, "InvalidExtension")

\* A subtag after the key: Value::parse_subtag_from_bytes_manual_slice.
RsType(st, subtag) ==
    LET k == ValueSubtagKind(subtag)
    IN  IF k = "Some"
        THEN IF st.current_type # None THEN RsErr(st, "InvalidSubtag")
             ELSE RsAdvance([st EXCEPT !.current_type = ValueSubtagFromBytes(subtag)])
        ELSE IF k = "None" THEN RsAdvance(st)
        ELSE RsErr(st, "InvalidExtension")

\* One evaluation of the keyword loop's condition and body.
RsExtLoop(st, in) ==
    IF st.idx >= Len(in) THEN RsKeywordOk(st)
    ELSE
      LET subtag == in[st.idx + 1]
          pk == [st EXCEPT !.seen = Max(st.seen, st.idx + 1)]
      IN  IF Len(subtag) = 2 THEN RsKey(pk, subtag)
          ELSE IF pk.key # None THEN RsType(pk, subtag)
          ELSE RsKeywordOk(pk)

RsStep(st, in, md) ==
    IF st.pc = "start" THEN RsLanguage(st, in)
    ELSE IF st.pc = "loop" THEN RsLoop(st, in, md)
    ELSE IF st.pc = "ext" THEN RsExtension(st, in)
    ELSE RsExtLoop(st, in)

RECURSIVE RsRun(_, _, _)
RsRun(st, in, md) ==
    IF st.pc = "done" THEN st ELSE RsRun(RsStep(st, in, md), in, md)

\* parse_language_identifier_with_single_variant(t, mode): the keyword of the
\* result is dropped, an error is passed on.
parse_language_identifier_with_single_variant(in, md) ==
    LET st == RsRun(RsInit, in, md)
    IN  [res |-> st.res, language |-> st.language, script |-> st.script,
         region |-> st.region, variant |-> st.variant]

----------------------------------------------------------------------------
(* Serialization and the subtag iterator.                                  *)

\* b'-' and b'_'
IsSeparator(b) == b = 45 \/ b = 95

RECURSIVE JoinSubtags(_)
JoinSubtags(ss) ==
    IF Len(ss) = 0 THEN <<>>
    ELSE IF Len(ss) = 1 THEN ss[1]
    ELSE ss[1] \o <<45>> \o JoinSubtags(Tail(ss))

\* The canonical serialization of a LanguageIdentifier: the language, then
\* the script, the region and the variants in stored order, joined by '-'.
Serialize(id) ==
    JoinSubtags(<<id.language>>
                \o (IF id.script # None THEN <<id.script>> ELSE <<>>)
                \o (IF id.region # None THEN <<id.region>> ELSE <<>>)
                \o id.variants)

\* get_subtag_iterator: the spans of the bytes between '-' and '_'.
RECURSIVE SplitSubtags(_, _)
SplitSubtags(bytes, cur) ==
    IF Len(bytes) = 0 THEN <<cur>>
    ELSE IF IsSeparator(bytes[1])
         THEN <<cur>> \o SplitSubtags(Tail(bytes), <<>>)
         ELSE SplitSubtags(Tail(bytes), Append(cur, bytes[1]))

get_subtag_iterator(bytes) == SplitSubtags(bytes, <<>>)

----------------------------------------------------------------------------
(* Canonical decomposition: CanonicalDecomposition::decompose.             *)

HANGUL_S_BASE == 44032

HANGUL_L_BASE == 4352

HANGUL_V_BASE == 4449

HANGUL_T_BASE == 4519

HANGUL_T_COUNT == 28

HANGUL_N_COUNT == 588

HANGUL_S_COUNT == 11172

BACKWARD_COMBINING_STARTER_MARKER == 1

NON_ROUND_TRIP_MARKER == 1

SPECIAL_NON_STARTER_DECOMPOSITION_MARKER_U16 == 2

FDFA_MARKER == 3

REPLACEMENT_CHARACTER == 65533

\* A u32 is held as its two 16-bit halves, [hi, lo].
U32Of(x) == [hi |-> x \div 65536, lo |-> x % 65536]

\* u32 comparisons with a number below 2^16
U32AtMost(x, n) == x.hi = 0 /\ x.lo <= n

U32AtLeast(x, n) == x.hi > 0 \/ x.lo >= n

\* u32::wrapping_sub of two numbers below 2^31: a - b modulo 2^32
WrappingSub(a, b) ==
    IF a >= b THEN U32Of(a - b)
    ELSE LET d == b - a - 1
         IN  [hi |-> 65535 - (d \div 65536), lo |-> 65535 - (d % 65536)]

IsScalarValue(u) == (u >= 0 /\ u < 55296) \/ (u > 57343 /\ u <= 1114111)

\* char_from_u32: char::from_u32, U+FFFD for a value that is no scalar value.
char_from_u32(u) == IF IsScalarValue(u) THEN u ELSE REPLACEMENT_CHARACTER

char_from_u16(u) == char_from_u32(u)

char_from_u24(u) == char_from_u32(u)

\* in_inclusive_range(c, start, end)
in_inclusive_range(c, start, end) == U32AtMost(WrappingSub(c, start), end - start)

\* The values of Decomposed.  branch records the path that produced the
\* value, asserts is FALSE when a debug assertion failed on the way.
Default(br, ok) == [kind |-> "Default", a |-> 0, b |-> 0, branch |-> br, asserts |-> ok]

Singleton(x, br) == [kind |-> "Singleton", a |-> x, b |-> 0, branch |-> br, asserts |-> TRUE]

Expansion(x, y, br) == [kind |-> "Expansion", a |-> x, b |-> y, branch |-> br, asserts |-> TRUE]

\* No value of Decomposed: an unsigned subtraction went below zero on the way.
Underflow(br) == [kind |-> "Underflow", a |-> 0, b |-> 0, branch |-> br, asserts |-> FALSE]

\* The tables of the model: CanonicalDecompositionTablesV1 (scalars16,
\* scalars24) and the scalars24 of NonRecursiveDecompositionSupplementV1.
Scalars16 == <<65, 778, 69, 770>>

Scalars24 == <<119127, 119141, 194564>>

SupplementScalars24 == <<119128, 119150>>

\* The 0-based Option-returning get of a ZeroVec.
InBounds(table, i) == i >= 0 /\ i < Len(table)

\* A plausible slip: the test for an absent supplement entry is lost.
SupplementNeverAbsent(sv) == FALSE

\* A plausible slip: the test of the main trie value is repeated for the
\* supplement.
SupplementAbsentByMarker(sv) == U32AtMost(sv, BACKWARD_COMBINING_STARTER_MARKER)

\* if non_recursive_decomposition == 0
SupplementAbsent(sv) == U32AtMost(sv, 0)

\* The fallback: the non-recursive supplement, sv its trie value for c.
DecomposeSupplement(c, sv) ==
    IF SupplementAbsent(sv) THEN Default("supplement", FALSE)
    ELSE
      LET trail_or_complex == sv.hi
          lead == sv.lo
      IN  IF lead # 0 /\ trail_or_complex # 0
          THEN Expansion(char_from_u16(lead), char_from_u16(trail_or_complex), "supplement")
          ELSE IF lead # 0 THEN Singleton(char_from_u16(lead), "supplement")
          ELSE LET offset == trail_or_complex - 1
               IN  IF offset < 0 THEN Underflow("supplement")
                   ELSE IF InBounds(SupplementScalars24, offset)
                      /\ InBounds(SupplementScalars24, offset + 1)
                   THEN Expansion(char_from_u24(SupplementScalars24[offset + 1]),
                                  char_from_u24(SupplementScalars24[offset + 2]),
                                  "supplement")
                   ELSE Default("supplement", FALSE)

\* The hard-coded special non-starter decompositions.
SpecialNonStarter(c) ==
    IF ~in_inclusive_range(c, 832, 3969) THEN Default("special", TRUE)
    ELSE IF c = 832 THEN Singleton(768, "special")
    ELSE IF c = 833 THEN Singleton(769, "special")
    ELSE IF c = 835 THEN Singleton(787, "special")
    ELSE IF c = 836 THEN Expansion(776, 769, "special")
    ELSE IF c = 3955 THEN Expansion(3953, 3954, "special")
    ELSE IF c = 3957 THEN Expansion(3953, 3956, "special")
    ELSE IF c = 3969 THEN Expansion(3953, 3968, "special")
    ELSE Default("special", TRUE)

\* A plausible slip: the length is shifted out from bit 12 instead of bit 13,
\* the all-non-starters bit is read as the lowest bit of the length.
DecomposeComplexLengthFromBit12(c, trail_or_complex, sv) ==
    LET offset == trail_or_complex % 4096
        n == trail_or_complex \div 4096
    IN  IF offset < Len(Scalars16)
        THEN IF n # 0 THEN DecomposeSupplement(c, sv)
             ELSE IF InBounds(Scalars16, offset) /\ InBounds(Scalars16, offset + 1)
             THEN Expansion(char_from_u16(Scalars16[offset + 1]),
                            char_from_u16(Scalars16[offset + 2]), "complex16")
             ELSE Default("complex16", FALSE)
        ELSE IF n + 1 > 2 THEN DecomposeSupplement(c, sv)
        ELSE IF InBounds(Scalars24, offset - Len(Scalars16))
        THEN Singleton(char_from_u24(Scalars24[offset - Len(Scalars16) + 1]),
                       "complex24")
        ELSE Default("complex24", FALSE)

\* The complex decomposition descriptor of the upper half of the trie value.
DecomposeComplex(c, trail_or_complex, sv) ==
    LET offset == trail_or_complex % 4096
        n == trail_or_complex \div 8192
    IN  IF offset < Len(Scalars16)
        THEN IF n # 0 THEN DecomposeSupplement(c, sv)
             ELSE IF InBounds(Scalars16, offset) /\ InBounds(Scalars16, offset + 1)
             THEN Expansion(char_from_u16(Scalars16[offset + 1]),
                            char_from_u16(Scalars16[offset + 2]), "complex16")
             ELSE Default("complex16", FALSE)
        ELSE LET len == n + 1
                 offset24 == offset - Len(Scalars16)
             IN  IF len > 2 THEN DecomposeSupplement(c, sv)
                 ELSE IF offset24 < 0 THEN Underflow("complex24")
                 ELSE IF InBounds(Scalars24, offset24)
                 THEN IF len = 1
                      THEN Singleton(char_from_u24(Scalars24[offset24 + 1]), "complex24")
                      ELSE IF InBounds(Scalars24, offset24 + 1)
                      THEN Expansion(char_from_u24(Scalars24[offset24 + 1]),
                                     char_from_u24(Scalars24[offset24 + 2]), "complex24")
                      ELSE Default("complex24", FALSE)
                 ELSE Default("complex24", FALSE)

\* decompose_non_hangul(c): decomposition is the main trie's value for c, sv
\* the supplement trie's.
\* A plausible slip: the two-BMP expansion is returned without the test for
\* the oxia range.
DecomposeWithoutOxiaRange(c, decomposition, sv) ==
    IF U32AtMost(decomposition, BACKWARD_COMBINING_STARTER_MARKER)
    THEN Default("trie", TRUE)
    ELSE IF decomposition.lo > NON_ROUND_TRIP_MARKER /\ decomposition.hi # 0
    THEN Expansion(char_from_u16(decomposition.lo), char_from_u16(decomposition.hi), "bmp")
    ELSE DecomposeSupplement(c, sv)

decompose_non_hangul(c, decomposition, sv) ==
    IF U32AtMost(decomposition, BACKWARD_COMBINING_STARTER_MARKER)
    THEN Default("trie", TRUE)
    ELSE
      LET trail_or_complex == decomposition.hi
          lead == decomposition.lo
      IN  IF lead > NON_ROUND_TRIP_MARKER /\ trail_or_complex # 0
          THEN IF in_inclusive_range(c, 8049, 8187)
               THEN DecomposeSupplement(c, sv)
               ELSE Expansion(char_from_u16(lead), char_from_u16(trail_or_complex), "bmp")
          ELSE IF lead > NON_ROUND_TRIP_MARKER
          THEN IF lead = SPECIAL_NON_STARTER_DECOMPOSITION_MARKER_U16
               THEN SpecialNonStarter(c)
               ELSE [Singleton(char_from_u16(lead), "bmp")
                       EXCEPT !.asserts = (lead # FDFA_MARKER)]
          ELSE IF c = 8491 THEN Singleton(197, "angstrom")
          ELSE DecomposeComplex(c, trail_or_complex, sv)

\* A plausible slip: a plain subtraction, the absolute difference.
HangulOffsetAbs(c) ==
    U32Of(IF c >= HANGUL_S_BASE THEN c - HANGUL_S_BASE ELSE HANGUL_S_BASE - c)

\* let lvt = u32::from(c).wrapping_sub(HANGUL_S_BASE);
HangulOffset(c) == WrappingSub(c, HANGUL_S_BASE)

\* A plausible slip: the trailing consonant is forgotten, every syllable is
\* decomposed to its L and V jamo.
HangulExpansionWithoutT(c, lvt) ==
    Expansion(HANGUL_L_BASE + (lvt \div HANGUL_N_COUNT),
              HANGUL_V_BASE + ((lvt % HANGUL_N_COUNT) \div HANGUL_T_COUNT),
              "hangul")

\* The closed form for a Hangul syllable, lvt < HANGUL_S_COUNT.
HangulExpansion(c, lvt) ==
    LET t == lvt % HANGUL_T_COUNT
    IN  IF t = 0
        THEN Expansion(HANGUL_L_BASE + (lvt \div HANGUL_N_COUNT),
                       HANGUL_V_BASE + ((lvt % HANGUL_N_COUNT) \div HANGUL_T_COUNT),
                       "hangul")
        ELSE Expansion(HANGUL_S_BASE + (lvt - t), HANGUL_T_BASE + t, "hangul")

\* decompose(c)
decompose(c, decomposition, sv) ==
    LET lvt == HangulOffset(c)
    IN  IF U32AtLeast(lvt, HANGUL_S_COUNT) THEN decompose_non_hangul(c, decomposition, sv)
        ELSE HangulExpansion(c, lvt.lo)

\* Packed trie values.
Pack(lead, trail) == [hi |-> trail, lo |-> lead]

Descriptor(n, non_starters, offset) == n * 8192 + non_starters * 4096 + offset

----------------------------------------------------------------------------
(* The runs.  A run parses one input in one mode with the general path and *)
(* then with the restricted path; after a successful run in                *)
(* LanguageIdentifier mode the result is serialized and parsed again       *)
(* (pass 2, first holding the result of pass 1).                           *)

Modes == {"LanguageIdentifier", "Locale", "Partial"}

NoDecomposition ==
    [kind |-> "none", a |-> 0, b |-> 0, branch |-> "none", asserts |-> TRUE]

ParserIdle ==
    /\ input = <<>> /\ mode = "LanguageIdentifier" /\ phase = "idle"
    /\ pass = 1 /\ first = GenInit /\ g = GenInit /\ r = RsInit

\* No composition, stepwise decomposition, construction, lookup or
\* segmentation has started.
Idle == [pc |-> "idle"]

AuxIdle == comp = Idle /\ run = Idle /\ ctor = Idle /\ ccc = Idle /\ seg = Idle

DecompIdle == ch = 0 /\ tval = [hi |-> 0, lo |-> 0] /\ sval = tval /\ dec = NoDecomposition

InitParser ==
    /\ input \in BoundedSeq(LangidSubtags, MaxSubtags)
    /\ mode \in Modes
    /\ phase = "general"
    /\ pass = 1
    /\ first = GenInit
    /\ g = GenInit
    /\ r = RsInit
    /\ DecompIdle
    /\ AuxIdle

InitRestricted ==
    /\ input \in {<<SubtagEn>> \o t : t \in BoundedSeq(ExtensionSubtags, MaxExtSubtags)}
    /\ mode \in Modes
    /\ phase = "restricted"
    /\ pass = 1
    /\ first = GenInit
    /\ g = GenInit
    /\ r = RsInit
    /\ DecompIdle
    /\ AuxIdle

\* The general path reads the language.
ParseLanguage ==
    /\ phase = "general" /\ g.pc = "start"
    /\ g' = GenLanguage(g, input)
    /\ phase' = IF g'.pc = "done" THEN "restricted" ELSE "general"
    /\ UNCHANGED <<input, mode, pass, first, r, decompVars, auxVars>>

\* One iteration of the general path's loop (or its exit and return).
ParseLoop ==
    /\ phase = "general" /\ g.pc = "loop"
    /\ g' = GenLoop(g, input, mode)
    /\ phase' = IF g'.pc = "done" THEN "restricted" ELSE "general"
    /\ UNCHANGED <<input, mode, pass, first, r, decompVars, auxVars>>

RsAct(next) ==
    /\ phase = "restricted"
    /\ r' = next
    /\ phase' = IF r'.pc = "done" THEN "done" ELSE "restricted"
    /\ UNCHANGED <<input, mode, pass, first, g, decompVars, auxVars>>

\* The restricted path reads the language.
RsParseLanguage == r.pc = "start" /\ RsAct(RsLanguage(r, input))

\* One iteration of the restricted path's main loop (or its exit).
RsParseLoop == r.pc = "loop" /\ RsAct(RsLoop(r, input, mode))

\* The head of the extension section.
RsParseExtension == r.pc = "ext" /\ RsAct(RsExtension(r, input))

\* One iteration of the keyword loop (or its exit and return).
RsParseExtLoop == r.pc = "extloop" /\ RsAct(RsExtLoop(r, input))

\* The result of a LanguageIdentifier-mode parse is serialized; the bytes are
\* the input of a second parse.
Reparse ==
    /\ phase = "done" /\ pass = 1
    /\ mode = "LanguageIdentifier" /\ g.res = "Ok"
    /\ first' = g
    /\ input' = get_subtag_iterator(Serialize(g))
    /\ g' = GenInit
    /\ r' = RsInit
    /\ phase' = "general"
    /\ pass' = 2
    /\ UNCHANGED <<mode, decompVars, auxVars>>

NextParser ==
    \/ ParseLanguage
    \/ ParseLoop
    \/ RsParseLanguage
    \/ RsParseLoop
    \/ RsParseExtension
    \/ RsParseExtLoop
    \/ Reparse

NextRestricted ==
    \/ RsParseLanguage
    \/ RsParseLoop
    \/ RsParseExtension
    \/ RsParseExtLoop

\* Both paths on inputs of language-identifier subtags, in the three modes.
SpecParser == InitParser /\ [][NextParser]_vars

\* The restricted path on a language followed by extension subtags.
SpecRestricted == InitRestricted /\ [][NextRestricted]_vars

----------------------------------------------------------------------------
(* The decomposition runs: decompose(ch), tval and sval being the values   *)
(* the main trie and the supplement trie hold for ch.                      *)

HangulSyllables == HANGUL_S_BASE..(HANGUL_S_BASE + HANGUL_S_COUNT - 1)

\* U+0000, A, combining marks around U+0340..U+0344, Tibetan vowel signs,
\* the ends of the oxia range and their neighbours, OHM and ANGSTROM SIGN,
\* the neighbours of the Hangul syllables and of the surrogates, U+1D15E,
\* U+10FFFF.
OtherChars ==
    {0, 65, 768, 832, 833, 834, 835, 836, 3955, 3957, 3969, 3970, 4096,
     8048, 8049, 8187, 8188, 8486, 8491, 44031, 55204, 55295, 57344,
     119134, 1114111}

\* Trie values: 0, the two markers 1 and 2, the FDFA marker, a combining
\* class, a BMP singleton, a BMP pair, and complex descriptors by lead,
\* length bits, non-starter bit and offset.
TrieValues ==
    {Pack(0, 0), Pack(1, 0), Pack(2, 0), Pack(3, 0), Pack(55526, 0),
     Pack(937, 0), Pack(65, 778)}
    \cup {Pack(lead, Descriptor(n, ns, off)) :
            lead \in {0, 1}, n \in {0, 1, 7}, ns \in {0, 1},
            off \in {0, 3, 4, 6, 7, 4095}}

\* Supplement values: absent, the singleton U+0001 (the number of the
\* backward-combining marker), a BMP singleton, a BMP pair, offsets plus one
\* into the supplement's scalars24 (the last two out of bounds).
SupplementValues ==
    {Pack(0, 0), Pack(1, 0), Pack(940, 0), Pack(945, 769), Pack(0, 1),
     Pack(0, 2), Pack(0, 3)}

InitDecompose ==
    /\ \/ ch \in HangulSyllables /\ tval \in {Pack(0, 0), Pack(65, 778)}
          /\ sval = Pack(0, 0)
       \/ ch \in OtherChars /\ tval \in TrieValues /\ sval \in SupplementValues
    /\ dec = NoDecomposition
    /\ ParserIdle
    /\ AuxIdle

\* decompose(ch) is called and returns.
Decompose ==
    /\ dec.kind = "none"
    /\ dec' = decompose(ch, tval, sval)
    /\ UNCHANGED <<ch, tval, sval, parserVars, auxVars>>

NextDecompose == Decompose

SpecDecompose == InitDecompose /\ [][NextDecompose]_vars

----------------------------------------------------------------------------
(* Properties of the parser.                                               *)

Range(f) == {f[i] : i \in DOMAIN f}

StrictlyAscending(vs) == \A i \in 1..(Len(vs) - 1) : BytesLess(vs[i], vs[i + 1])

Swap(in, i, j) ==
    [k \in 1..Len(in) |-> IF k = i THEN in[j] ELSE IF k = j THEN in[i] ELSE in[k]]

\* The subtags 2..n of in are an optional script, an optional region and
\* then variants only: each is accepted by the main loop in its position
\* unless it is a variant that is already stored.
WellFormedPrefix(in, n) ==
    /\ Len(in) >= 1 /\ n <= Len(in)
    /\ LanguageOk(in[1])
    /\ \E a \in {0, 1}, b \in {0, 1} :
         /\ 1 + a + b <= n
         /\ a = 1 => ScriptOk(in[2])
         /\ b = 1 => RegionOk(in[2 + a])
         /\ \A k \in (2 + a + b)..n : VariantOk(in[k])

\* The variants among the subtags 2..n of in.
VariantIndices(in, n) == {k \in 2..n : VariantOk(in[k])}

\* in[j] is a variant that already occurs among the subtags before it, and
\* every subtag before it is accepted in its position.
DuplicateVariantAt(in, j) ==
    /\ j \in 3..Len(in)
    /\ WellFormedPrefix(in, j)
    /\ \E i \in VariantIndices(in, j - 1) :
         VariantFromBytes(in[i]) = VariantFromBytes(in[j])

\* The language-identifier fields of a parse state of the general path.
GenFields(st) == <<st.language, st.script, st.region, st.variants>>

\* The language-identifier fields of a parse state of the restricted path.
RsFields(st) == <<st.language, st.script, st.region, st.variant>>

(* C1: in the general path the collected variants are strictly ascending   *)
(* (sorted, no duplicate) in every state, so after every loop iteration;   *)
(* the variants of an Ok result are the ascending list of the set of the   *)
(* variant subtags the parse consumed, and exchanging two variant subtags  *)
(* of the input leaves the result unchanged.                               *)
C1_VariantsSortedOrderIndependent ==
    /\ StrictlyAscending(g.variants)
    /\ (g.pc = "done" /\ g.res = "Ok") =>
         /\ Range(g.variants) =
              {VariantFromBytes(input[k]) : k \in VariantIndices(input, g.idx)}
         /\ \A i, j \in VariantIndices(input, g.idx) :
              LET o == parse_language_identifier(Swap(input, i, j), mode)
              IN  o.res = "Ok" /\ GenFields(o) = GenFields(g)

\* en-fonipa-alalc97 has been parsed to [alalc97, fonipa].
C1_Witness ==
    /\ g.pc = "done" /\ g.res = "Ok"
    /\ input = <<SubtagEn, SubtagFonipa, SubtagAlalc97>>
    /\ g.variants = <<SubtagAlalc97, SubtagFonipa>>

(* C2: in the general path, in every mode, an input whose subtags up to a  *)
(* second occurrence of a variant are all accepted in their positions is   *)
(* parsed to Err(InvalidSubtag), never to Ok.                              *)
C2_DuplicateVariantRejected ==
    (g.pc = "done" /\ \E j \in 1..Len(input) : DuplicateVariantAt(input, j))
        => g.res = "InvalidSubtag"

\* en-fonipa-FONIPA (the same variant after lowercasing) in Partial mode.
C2_Witness ==
    /\ g.pc = "done" /\ mode = "Partial"
    /\ input = <<SubtagEn, SubtagFonipa, SubtagFonipaUpper>>
    /\ g.res = "InvalidSubtag"

(* C3: in both paths and every mode the result is Err(InvalidLanguage)     *)
(* exactly when the input has no first subtag or the first subtag is no    *)
(* well-formed language, and then no subtag after the first was examined.  *)
C3_InvalidLanguage ==
    LET bad == Len(input) = 0 \/ ~LanguageOk(input[1])
    IN  /\ g.pc = "done" =>
             /\ (g.res = "InvalidLanguage") <=> bad
             /\ bad => g.seen <= 1 /\ g.idx <= 1
        /\ r.pc = "done" =>
             /\ (r.res = "InvalidLanguage") <=> bad
             /\ bad => r.seen <= 1 /\ r.idx <= 1

\* Both paths have rejected an input that starts with a malformed language
\* and goes on with further subtags.
C3_Witness ==
    /\ g.pc = "done" /\ r.pc = "done"
    /\ Len(input) >= 3 /\ ~LanguageOk(input[1])
    /\ g.res = "InvalidLanguage" /\ r.res = "InvalidLanguage"
    /\ g.seen = 1 /\ r.seen = 1

\* Some subtag after the language has length 1.
HasSingleton(in) == \E k \in 2..Len(in) : Len(in[k]) = 1

\* The index of the first subtag of length 1 after the language.
FirstSingleton(in) ==
    CHOOSE k \in 2..Len(in) :
        Len(in[k]) = 1 /\ \A m \in 2..(k - 1) : Len(in[m]) # 1

\* The parse of the first n subtags alone.
GenPrefix(in, md, n) == parse_language_identifier(SubSeq(in, 1, n), md)

RsPrefix(in, md, n) == RsRun(RsInit, SubSeq(in, 1, n), md)

\* Every subtag before the first singleton is consumed by the main loop.
GenReachesSingleton(in, md) ==
    /\ HasSingleton(in)
    /\ LET k == FirstSingleton(in)
           p == GenPrefix(in, md, k - 1)
       IN  p.res = "Ok" /\ p.idx = k - 1

RsReachesSingleton(in, md) ==
    /\ HasSingleton(in)
    /\ LET k == FirstSingleton(in)
           p == RsPrefix(in, md, k - 1)
       IN  p.res = "Ok" /\ p.idx = k - 1

(* C4 as stated, for both paths: in Locale and Partial modes, when the     *)
(* main loop reaches the first subtag of length 1, the result is Ok with   *)
(* the fields of the subtags before it, and it is the next subtag of the   *)
(* iterator.                                                               *)
C4_Original ==
    mode \in {"Locale", "Partial"} =>
      /\ (g.pc = "done" /\ GenReachesSingleton(input, mode)) =>
           LET k == FirstSingleton(input)
           IN  /\ g.res = "Ok" /\ g.idx = k - 1
               /\ GenFields(g) = GenFields(GenPrefix(input, mode, k - 1))
      /\ (r.pc = "done" /\ RsReachesSingleton(input, mode)) =>
           LET k == FirstSingleton(input)
           IN  /\ r.res = "Ok" /\ r.idx = k - 1
               /\ RsFields(r) = RsFields(RsPrefix(input, mode, k - 1))

(* C4, amended: in Locale and Partial modes the main loop of both paths    *)
(* stops at the first subtag of length 1 without consuming it, and the     *)
(* language, script, region and variants are those of the subtags before   *)
(* it whatever follows.  In the general path, and in the restricted path   *)
(* in Partial mode, the result is Ok and the singleton is the iterator's   *)
(* next subtag.  In the restricted path in Locale mode the extension       *)
(* section then reads the singleton and may consume it or return an error. *)
C4_StopsAtFirstSingleton ==
    mode \in {"Locale", "Partial"} =>
      /\ (g.pc = "done" /\ GenReachesSingleton(input, mode)) =>
           LET k == FirstSingleton(input)
           IN  /\ g.res = "Ok" /\ g.idx = k - 1 /\ g.seen = k
               /\ GenFields(g) = GenFields(GenPrefix(input, mode, k - 1))
      /\ (r.pc \in {"ext", "extloop", "done"} /\ RsReachesSingleton(input, mode)) =>
           LET k == FirstSingleton(input)
           IN  /\ RsFields(r) = RsFields(RsPrefix(input, mode, k - 1))
               /\ r.idx >= k - 1
               /\ r.pc = "ext" => r.idx = k - 1
               /\ mode = "Partial" => r.res = "Ok" /\ r.idx = k - 1 /\ r.seen = k

\* en-us-u-fonipa in Locale mode: the general path returns Ok before `u`,
\* the restricted path rejects the attribute after it.
C4_Witness ==
    /\ mode = "Locale" /\ g.pc = "done" /\ r.pc = "done"
    /\ input = <<SubtagEn, SubtagUs, SubtagU, SubtagFonipa>>
    /\ g.res = "Ok" /\ g.idx = 2 /\ g.region = <<85, 83>>
    /\ r.res = "InvalidSubtag"

\* The subtag s is accepted by the main loop in position pos.
Accepted(pos, s) ==
    IF pos = "Script" THEN ScriptOk(s) \/ RegionOk(s) \/ VariantOk(s)
    ELSE IF pos = "Region" THEN RegionOk(s) \/ VariantOk(s)
    ELSE VariantOk(s)

(* C5: in Partial mode, in both paths, the first subtag after the language *)
(* that is not accepted in the current position stops the parse: it is not *)
(* consumed and the result is Ok with the fields of the subtags before it. *)
(* Err(InvalidSubtag) is returned only at a variant, in Variant position,  *)
(* that is already stored (general path) or when one is already stored     *)
(* (restricted path), never at an unrecognized subtag.                     *)
C5_PartialStopsCleanly ==
    mode = "Partial" =>
      /\ g.pc = "done" =>
           /\ g.res \in {"Ok", "InvalidLanguage", "InvalidSubtag"}
           /\ g.res = "InvalidSubtag" =>
                /\ g.idx < Len(input) /\ g.position = "Variant"
                /\ VariantOk(input[g.idx + 1])
                /\ VariantFromBytes(input[g.idx + 1]) \in Range(g.variants)
           /\ \A n \in 1..(Len(input) - 1) :
                LET p == GenPrefix(input, "Partial", n)
                IN  (p.res = "Ok" /\ p.idx = n /\ ~Accepted(p.position, input[n + 1]))
                      => /\ g.res = "Ok" /\ g.idx = n
                         /\ GenFields(g) = GenFields(p)
      /\ r.pc = "done" =>
           /\ r.res \in {"Ok", "InvalidLanguage", "InvalidSubtag"}
           /\ r.res = "InvalidSubtag" =>
                /\ r.idx < Len(input) /\ r.position = "Variant"
                /\ VariantOk(input[r.idx + 1])
                /\ r.variant # None
           /\ \A n \in 1..(Len(input) - 1) :
                LET p == RsPrefix(input, "Partial", n)
                IN  (p.res = "Ok" /\ p.idx = n /\ ~Accepted(p.position, input[n + 1]))
                      => /\ r.res = "Ok" /\ r.idx = n
                         /\ RsFields(r) = RsFields(p)

\* en-latn-a1-us in Partial mode: both paths stop at a1 with script Latn.
C5_Witness ==
    /\ mode = "Partial" /\ g.pc = "done" /\ r.pc = "done"
    /\ input = <<SubtagEn, SubtagLatn, SubtagA1, SubtagUs>>
    /\ g.res = "Ok" /\ g.idx = 2 /\ g.script = <<76, 97, 116, 110>> /\ g.region = None
    /\ r.res = "Ok" /\ r.idx = 2

\* Locale mode accepts in by stopping at a subtag of length 1.
LocaleStopsAtSingleton(in) ==
    LET o == parse_language_identifier(in, "Locale")
    IN  o.res = "Ok" /\ o.idx < Len(in) /\ Len(in[o.idx + 1]) = 1

(* C6 as stated: an input that Locale mode accepts by stopping at a subtag *)
(* of length 1 is not rejected at that subtag in LanguageIdentifier mode.  *)
C6_Original ==
    (mode = "LanguageIdentifier" /\ g.pc = "done" /\ LocaleStopsAtSingleton(input))
        => ~(g.res = "InvalidSubtag"
             /\ g.idx = parse_language_identifier(input, "Locale").idx)

(* C6, amended: in LanguageIdentifier mode a subtag of length 1 after the  *)
(* language does not end the main loop; it is classified like any other    *)
(* subtag and, being no script, region or variant, it is rejected: an      *)
(* input that Locale mode accepts by stopping at a subtag of length 1      *)
(* yields Err(InvalidSubtag) at that subtag, and an Ok result has consumed *)
(* the whole input, which then holds no subtag of length 1.                *)
C6_SingletonRejectedInLanguageIdentifierMode ==
    (mode = "LanguageIdentifier" /\ g.pc = "done") =>
      /\ LocaleStopsAtSingleton(input) =>
           LET o == parse_language_identifier(input, "Locale")
           IN  /\ g.res = "InvalidSubtag"
               /\ g.idx = o.idx /\ g.seen = o.idx + 1
               /\ GenFields(g) = GenFields(o)
      /\ g.res = "Ok" => g.idx = Len(input) /\ ~HasSingleton(input)

\* en-us-u-fonipa in LanguageIdentifier mode is rejected at `u`.
C6_Witness ==
    /\ mode = "LanguageIdentifier" /\ g.pc = "done"
    /\ input = <<SubtagEn, SubtagUs, SubtagU, SubtagFonipa>>
    /\ g.res = "InvalidSubtag" /\ g.idx = 2

----------------------------------------------------------------------------
(* Properties of the restricted path's variant and extension handling.     *)

\* in[j] is a variant, a variant occurs before it, and every subtag before
\* it is accepted in its position.
SecondVariantAt(in, j) ==
    /\ j \in 3..Len(in)
    /\ WellFormedPrefix(in, j)
    /\ VariantOk(in[j])
    /\ VariantIndices(in, j - 1) # {}

\* The subtags k+2..n are type subtags of the key in[k+1].
TypeRun(in, k, n) ==
    /\ k + 1 <= Len(in) /\ n <= Len(in)
    /\ KeyOk(in[k + 1])
    /\ \A t \in (k + 2)..n :
         Len(in[t]) # 2 /\ ValueSubtagKind(in[t]) \in {"Some", "None"}

\* The type subtags among k+2..n that are stored (parse to Some).
StoredTypes(in, k, n) == {t \in (k + 2)..n : ValueSubtagKind(in[t]) = "Some"}

\* After `u` at k and its key: in[m] is a second subtag of length 2.
SecondKeyAt(in, k, m) ==
    /\ m \in (k + 2)..Len(in)
    /\ TypeRun(in, k, m - 1)
    /\ Cardinality(StoredTypes(in, k, m - 1)) <= 1
    /\ Len(in[m]) = 2

\* After `u` at k and its key: in[m] is the second type subtag of the key.
SecondTypeAt(in, k, m) ==
    /\ m = k + 3 /\ m <= Len(in)
    /\ TypeRun(in, k, m)

\* After `u` at k and its key: in[m] is the second type subtag of the key
\* that parses to a value.
SecondStoredTypeAt(in, k, m) ==
    /\ m \in (k + 3)..Len(in)
    /\ TypeRun(in, k, m)
    /\ ValueSubtagKind(in[m]) = "Some"
    /\ Cardinality(StoredTypes(in, k, m - 1)) = 1

\* The main loop reaches the first singleton, which is `u`.
UnicodeExtensionReached(in) ==
    /\ RsReachesSingleton(in, "Locale")
    /\ ExtensionTypeFromBytes(in[FirstSingleton(in)]) = "Unicode"

\* The last subtag the main loop consumed in a finished parse.
MainEnd(st, in) ==
    IF HasSingleton(in) /\ FirstSingleton(in) <= st.idx
    THEN FirstSingleton(in) - 1 ELSE st.idx

\* An Ok result has consumed at most one variant, one key and one stored
\* type, and holds exactly those.
AtMostOneOfEach(st, in) ==
    LET e == MainEnd(st, in)
        vs == VariantIndices(in, e)
        ks == {t \in (e + 2)..st.idx : Len(in[t]) = 2}
        ts == {t \in (e + 2)..st.idx : Len(in[t]) # 2 /\ ValueSubtagKind(in[t]) = "Some"}
    IN  /\ Cardinality(vs) <= 1
        /\ Cardinality(ks) <= 1
        /\ Cardinality(ts) <= 1
        /\ st.variant = (IF vs = {} THEN None
                         ELSE VariantFromBytes(in[CHOOSE t \in vs : TRUE]))
        /\ st.keyword =
             (IF ks = {} THEN None
              ELSE <<KeyFromBytes(in[CHOOSE t \in ks : TRUE]),
                     IF ts = {} THEN None
                     ELSE ValueSubtagFromBytes(in[CHOOSE t \in ts : TRUE])>>)

(* C7 as stated: in the restricted path a second variant yields            *)
(* Err(InvalidSubtag); in Locale mode a second 2-character key or a second *)
(* type subtag for the key yields Err(InvalidSubtag); an Ok result carries *)
(* at most one variant and one keyword.                                    *)
C7_Original ==
    r.pc = "done" =>
      /\ (\E j \in 1..Len(input) : SecondVariantAt(input, j)) => r.res = "InvalidSubtag"
      /\ (mode = "Locale" /\ UnicodeExtensionReached(input)) =>
           LET k == FirstSingleton(input)
           IN  /\ (\E m \in 1..Len(input) : SecondKeyAt(input, k, m))
                     => r.res = "InvalidSubtag"
               /\ (\E m \in 1..Len(input) : SecondTypeAt(input, k, m))
                     => r.res = "InvalidSubtag"
      /\ r.res = "Ok" => AtMostOneOfEach(r, input)

(* C7, amended: in the restricted path a second variant yields             *)
(* Err(InvalidSubtag); in Locale mode a second 2-character key, or a       *)
(* second type subtag that parses to a value, yields Err(InvalidSubtag);   *)
(* a type subtag that parses to no value (`true`) is skipped, is not       *)
(* counted and causes no error; an Ok result carries at most one variant   *)
(* and one keyword (a key and at most one type).                           *)
C7_SingleVariantSingleKeyword ==
    r.pc = "done" =>
      /\ (\E j \in 1..Len(input) : SecondVariantAt(input, j)) => r.res = "InvalidSubtag"
      /\ (mode = "Locale" /\ UnicodeExtensionReached(input)) =>
           LET k == FirstSingleton(input)
           IN  /\ (\E m \in 1..Len(input) : SecondKeyAt(input, k, m))
                     => r.res = "InvalidSubtag"
               /\ (\E m \in 1..Len(input) : SecondStoredTypeAt(input, k, m))
                     => r.res = "InvalidSubtag"
               /\ (TypeRun(input, k, Len(input))
                   /\ Cardinality(StoredTypes(input, k, Len(input))) <= 1)
                     => r.res = "Ok" /\ r.idx = Len(input)
      /\ r.res = "Ok" => AtMostOneOfEach(r, input)

\* en-u-ca-fonipa-ca in Locale mode: the second key is rejected.
C7_Witness ==
    /\ mode = "Locale" /\ r.pc = "done"
    /\ input = <<SubtagEn, SubtagU, SubtagCa, SubtagFonipa, SubtagCa>>
    /\ r.key = SubtagCa /\ r.current_type = SubtagFonipa
    /\ r.res = "InvalidSubtag"

(* C8: in the restricted path in Locale mode, when the main loop stops at  *)
(* a singleton that is a Transform, Private or Other extension, or at `u`  *)
(* followed by a well-formed attribute, the result is Err(InvalidSubtag);  *)
(* in LanguageIdentifier and Partial modes the extension section is never  *)
(* entered: no subtag after the one the main loop stopped at is read and   *)
(* no keyword is produced.                                                 *)
C8_UnsupportedExtensionsRejected ==
    /\ (mode = "Locale" /\ r.pc = "done" /\ RsReachesSingleton(input, "Locale")) =>
         LET k == FirstSingleton(input)
             ty == ExtensionTypeFromBytes(input[k])
         IN  /\ ty \in {"Transform", "Private", "Other"}
                   => r.res = "InvalidSubtag" /\ r.idx = k - 1
             /\ (ty = "Unicode" /\ k < Len(input) /\ AttributeOk(input[k + 1]))
                   => r.res = "InvalidSubtag" /\ r.idx = k
    /\ mode # "Locale" =>
         /\ r.pc \notin {"ext", "extloop"}
         /\ r.key = None /\ r.current_type = None /\ r.keyword = None
         /\ r.seen <= r.idx + 1
         /\ (r.pc = "done" /\ mode = "Partial" /\ RsReachesSingleton(input, mode))
               => r.res = "Ok" /\ r.idx = FirstSingleton(input) - 1

\* en-fonipa-x-ca in Locale mode: the private-use extension is rejected.
C8_Witness ==
    /\ mode = "Locale" /\ r.pc = "done"
    /\ input = <<SubtagEn, SubtagFonipa, SubtagX, SubtagCa>>
    /\ r.variant = SubtagFonipa /\ r.idx = 2
    /\ r.res = "InvalidSubtag"

----------------------------------------------------------------------------
(* The round trip through the canonical serialization.                     *)

(* C9: when parse_language_identifier in LanguageIdentifier mode returns   *)
(* Ok(id), parsing the canonical serialization of id (pass 2) returns Ok   *)
(* with the same language, script, region and variants, having consumed    *)
(* every subtag of the serialization.                                      *)
C9_SerializationRoundTrip ==
    (pass = 2 /\ g.pc = "done") =>
      /\ input = get_subtag_iterator(Serialize(first))
      /\ g.res = "Ok"
      /\ g.idx = Len(input)
      /\ GenFields(g) = GenFields(first)

\* The serialization en-US-alalc97-fonipa of a first parse has been parsed.
C9_Witness ==
    /\ pass = 2 /\ g.pc = "done" /\ g.res = "Ok"
    /\ first.region = <<85, 83>>
    /\ first.variants = <<SubtagAlalc97, SubtagFonipa>>
    /\ input = <<SubtagEn, <<85, 83>>, SubtagAlalc97, SubtagFonipa>>

----------------------------------------------------------------------------
(* Properties of the decomposition.                                        *)

(* C10: decompose(c) takes the closed-form Hangul branch exactly when      *)
(* HANGUL_S_BASE <= c < HANGUL_S_BASE + HANGUL_S_COUNT; with               *)
(* lvt = c - S_BASE it then returns Expansion(L_BASE + lvt div N_COUNT,    *)
(* V_BASE + (lvt mod N_COUNT) div T_COUNT) when lvt mod T_COUNT = 0 and    *)
(* Expansion(c - lvt mod T_COUNT, T_BASE + lvt mod T_COUNT) otherwise, and *)
(* the two values are an L jamo and a V jamo, or an LV syllable and a      *)
(* T jamo, so they are scalar values.                                      *)
C10_HangulClosedForm ==
    dec.kind # "none" =>
      LET inRange == HANGUL_S_BASE <= ch /\ ch < HANGUL_S_BASE + HANGUL_S_COUNT
          lvt == ch - HANGUL_S_BASE
          t == lvt % HANGUL_T_COUNT
          lJamo == HANGUL_L_BASE..(HANGUL_L_BASE + (HANGUL_S_COUNT \div HANGUL_N_COUNT) - 1)
          vJamo == HANGUL_V_BASE..(HANGUL_V_BASE + (HANGUL_N_COUNT \div HANGUL_T_COUNT) - 1)
          tJamo == (HANGUL_T_BASE + 1)..(HANGUL_T_BASE + HANGUL_T_COUNT - 1)
      IN  /\ (dec.branch = "hangul") <=> inRange
          /\ inRange =>
               /\ dec.kind = "Expansion"
               /\ IsScalarValue(dec.a) /\ IsScalarValue(dec.b)
               /\ IF t = 0
                  THEN /\ dec.a = HANGUL_L_BASE + (lvt \div HANGUL_N_COUNT)
                       /\ dec.b = HANGUL_V_BASE + ((lvt % HANGUL_N_COUNT) \div HANGUL_T_COUNT)
                       /\ dec.a \in lJamo /\ dec.b \in vJamo
                  ELSE /\ dec.a = ch - t
                       /\ dec.b = HANGUL_T_BASE + t
                       /\ dec.a \in HangulSyllables
                       /\ (dec.a - HANGUL_S_BASE) % HANGUL_T_COUNT = 0
                       /\ dec.b \in tJamo

\* decompose(U+AC01) has returned Expansion(U+AC00, U+11A8).
C10_Witness ==
    /\ ch = 44033 /\ dec.branch = "hangul"
    /\ dec.kind = "Expansion" /\ dec.a = 44032 /\ dec.b = 4520

----------------------------------------------------------------------------
(* Canonical composition: CanonicalComposition::compose.                   *)

\* The canonical compositions of the model, <<starter, second, composed>>:
\* a + U+0308, U+1EB9 + U+0302, A + U+030A, E + U+0302 and an entry under a
\* Hangul vowel that the closed form never lets the lookup reach.  The
\* composition-excluded U+1D15E (U+1D157 + U+1D165) and U+0344 are absent.
CanonicalCompositions ==
    {<<97, 776, 228>>, <<7865, 770, 7879>>, <<65, 778, 197>>,
     <<69, 770, 202>>, <<97, 4449, 228>>}

\* Composition-excluded characters of the model that have an Expansion.
CompositionExcluded == {119134, 836, 3955, 3957, 3969}

\* The lookup for an exact pair in the composition table.
compose_non_hangul(table, starter, second) ==
    IF \E e \in table : e[1] = starter /\ e[2] = second
    THEN (CHOOSE e \in table : e[1] = starter /\ e[2] = second)[3]
    ELSE 0 - 1

\* crate::compose: the Hangul closed form, then the table; -1 stands for None.
crate_compose(table, starter, second) ==
    LET v == WrappingSub(second, HANGUL_V_BASE)
        l == WrappingSub(starter, HANGUL_L_BASE)
        lv == WrappingSub(starter, HANGUL_S_BASE)
    IN  IF U32AtLeast(v, 4608 - HANGUL_V_BASE)
        THEN compose_non_hangul(table, starter, second)
        ELSE IF v.lo < HANGUL_N_COUNT \div HANGUL_T_COUNT
        THEN IF ~U32AtLeast(l, HANGUL_S_COUNT \div HANGUL_N_COUNT)
             THEN HANGUL_S_BASE + l.lo * HANGUL_N_COUNT + v.lo * HANGUL_T_COUNT
             ELSE 0 - 1
        ELSE IF in_inclusive_range(second, 4520, 4546)
                /\ ~U32AtLeast(lv, HANGUL_S_COUNT) /\ lv.lo % HANGUL_T_COUNT = 0
        THEN HANGUL_S_BASE + lv.lo + (second - HANGUL_T_BASE)
        ELSE 0 - 1

\* A plausible slip: the two arguments are passed in the wrong order.
ComposeSwapped(starter, second) ==
    crate_compose(CanonicalCompositions, second, starter)

\* CanonicalComposition::compose(starter, second)
compose(starter, second) == crate_compose(CanonicalCompositions, starter, second)

\* The trie values the data holds for characters of the model: Hangul
\* syllables and unmapped characters have none, U+00E4, U+00C5 and U+1EC7
\* a BMP pair, U+00CA two BMP starters in scalars16, U+1D15E two
\* supplementary characters in scalars24, U+0344 the special marker.
CanonicalData(c) ==
    IF c = 228 THEN Pack(97, 776)
    ELSE IF c = 197 THEN Pack(65, 778)
    ELSE IF c = 7879 THEN Pack(7865, 770)
    ELSE IF c = 202 THEN Pack(0, Descriptor(0, 0, 2))
    ELSE IF c = 119134 THEN Pack(1, Descriptor(1, 1, 4))
    ELSE IF c = 836 THEN Pack(SPECIAL_NON_STARTER_DECOMPOSITION_MARKER_U16, 0)
    ELSE Pack(0, 0)

\* The characters that are decomposed and recomposed are the Hangul
\* syllables, the characters with data and two without a decomposition; the
\* pairs compose is called with directly are letters, combining marks and
\* the ends and neighbours of the L, V, T and LV ranges.
InitCompose ==
    /\ \/ /\ ch \in HangulSyllables \cup {228, 197, 7879, 202, 119134, 836, 97, 44031}
          /\ comp = Idle
       \/ /\ ch = 0
          /\ comp \in [pc : {"args"},
                       starter : {97, 98, 65, 770, 7865, 119127, 4352, 4370, 4371,
                                  44032, 44033, 44060, 55176, 55203, 55204},
                       second : {98, 776, 770, 778, 7865, 119141, 4448, 4449, 4469,
                                 4470, 4519, 4520, 4546, 4547, 4607, 4608},
                       result : {0 - 1}]
    /\ tval = CanonicalData(ch)
    /\ sval = Pack(0, 0)
    /\ dec = NoDecomposition
    /\ run = Idle /\ ctor = Idle /\ ccc = Idle /\ seg = Idle
    /\ ParserIdle

\* The two characters of an Expansion become the arguments of compose.
ComposeDecomposed ==
    /\ comp.pc = "idle" /\ dec.kind = "Expansion"
    /\ comp' = [pc |-> "args", starter |-> dec.a, second |-> dec.b, result |-> 0 - 1]
    /\ UNCHANGED <<parserVars, decompVars, run, ctor, ccc, seg>>

\* compose(starter, second) is called and returns.
Compose ==
    /\ comp.pc = "args"
    /\ comp' = [comp EXCEPT !.pc = "done",
                            !.result = compose(comp.starter, comp.second)]
    /\ UNCHANGED <<parserVars, decompVars, run, ctor, ccc, seg>>

NextCompose ==
    \/ Decompose
    \/ ComposeDecomposed
    \/ Compose

SpecCompose == InitCompose /\ [][NextCompose]_vars

(* C11: when decompose(x) = Expansion(a, b) and x is not composition-       *)
(* excluded, compose(a, b) = Some(x); every Hangul syllable is recomposed,  *)
(* an LV syllable from its L and V jamo, an LVT syllable from its LV        *)
(* syllable and T jamo.                                                     *)
C11_ComposeInvertsDecompose ==
    (comp.pc = "done" /\ dec.kind = "Expansion") =>
      /\ comp.starter = dec.a /\ comp.second = dec.b
      /\ ch \notin CompositionExcluded => comp.result = ch
      /\ ch \in HangulSyllables =>
           /\ comp.result = ch
           /\ IF (ch - HANGUL_S_BASE) % HANGUL_T_COUNT = 0
              THEN dec.a < HANGUL_S_BASE /\ dec.b < HANGUL_T_BASE
              ELSE dec.a \in HangulSyllables /\ dec.b > HANGUL_T_BASE

\* The last Hangul syllable, U+D7A3, has been decomposed to U+D788 and
\* U+11C2 and recomposed.
C11_Witness ==
    /\ ch = 55203 /\ dec.kind = "Expansion" /\ dec.a = 55176 /\ dec.b = 4546
    /\ comp.pc = "done" /\ comp.result = 55203

(* C12: compose(starter, second) returns Some(x) only for a Hangul L and V  *)
(* jamo (x their LV syllable), for a Hangul LV syllable and T jamo (x their *)
(* LVT syllable), or for a pair of the composition table with x its entry;  *)
(* the Hangul form is tested first, so a second in U+1161..U+11FF never     *)
(* reaches the table; two non-composing starters and the pair               *)
(* U+1D157, U+1D165 of an excluded composite return None.                   *)
C12_ComposeOnlyHangulOrTable ==
    comp.pc = "done" =>
      LET s == comp.starter
          t == comp.second
          isL == s >= HANGUL_L_BASE /\ s < HANGUL_L_BASE + (HANGUL_S_COUNT \div HANGUL_N_COUNT)
          isV == t >= HANGUL_V_BASE /\ t < HANGUL_V_BASE + (HANGUL_N_COUNT \div HANGUL_T_COUNT)
          isLV == s \in HangulSyllables /\ (s - HANGUL_S_BASE) % HANGUL_T_COUNT = 0
          isT == t > HANGUL_T_BASE /\ t < HANGUL_T_BASE + HANGUL_T_COUNT
          jamo == t >= HANGUL_V_BASE /\ t < 4608
          lvOf == HANGUL_S_BASE + (s - HANGUL_L_BASE) * HANGUL_N_COUNT
                                + (t - HANGUL_V_BASE) * HANGUL_T_COUNT
      IN  /\ comp.result =
               (IF isL /\ isV THEN lvOf
                ELSE IF isLV /\ isT THEN s + (t - HANGUL_T_BASE)
                ELSE IF ~jamo /\ \E e \in CanonicalCompositions : e[1] = s /\ e[2] = t
                THEN (CHOOSE e \in CanonicalCompositions : e[1] = s /\ e[2] = t)[3]
                ELSE 0 - 1)
          /\ (s = 97 /\ t = 98) => comp.result = 0 - 1
          /\ (s = 119127 /\ t = 119141) => comp.result = 0 - 1

\* compose(U+1100, U+1175) has returned the LV syllable U+AE30, the pair
\* being no entry of the table.
C12_Witness ==
    /\ ch = 0 /\ comp.pc = "done"
    /\ comp.starter = 4352 /\ comp.second = 4469 /\ comp.result = 44592

----------------------------------------------------------------------------
(* decompose(ch) step by step.  run.pc is "idle" before the call, "trie"    *)
(* before the lookup in the main trie, "loop" at the head of the decode     *)
(* loop, "fallback" after a break out of it, "done" after the return.       *)
(* iters counts the executions of the loop body, trie_reads and supp_reads  *)
(* the lookups in the main trie and in the supplement trie.                 *)

\* A plausible slip: `continue` for `break`, the loop is entered again (the
\* model gives up after three rounds).
LoopContinue(st) == [st EXCEPT !.pc = IF st.iters < 3 THEN "loop" ELSE "fallback"]

\* break: the loop is left forward, to the supplement.
LoopBreak(st) == [st EXCEPT !.pc = "fallback"]

\* One step of decompose(c).
DecomposeStepOf(st, c, decomposition, sv) ==
    IF st.pc = "idle"
    THEN LET lvt == HangulOffset(c)
             st0 == [pc |-> "trie", iters |-> 0, trie_reads |-> 0,
                     supp_reads |-> 0, result |-> NoDecomposition]
         IN  IF U32AtLeast(lvt, HANGUL_S_COUNT) THEN st0
             ELSE [st0 EXCEPT !.pc = "done", !.result = HangulExpansion(c, lvt.lo)]
    ELSE IF st.pc = "trie"
    THEN LET rd == [st EXCEPT !.trie_reads = @ + 1]
         IN  IF U32AtMost(decomposition, BACKWARD_COMBINING_STARTER_MARKER)
             THEN [rd EXCEPT !.pc = "done", !.result = Default("trie", TRUE)]
             ELSE [rd EXCEPT !.pc = "loop"]
    ELSE IF st.pc = "loop"
    THEN LET body == [st EXCEPT !.iters = @ + 1]
             d == decompose_non_hangul(c, decomposition, sv)
         IN  IF d.branch = "supplement" THEN LoopBreak(body)
             ELSE [body EXCEPT !.pc = "done", !.result = d]
    ELSE [st EXCEPT !.pc = "done", !.supp_reads = @ + 1,
                    !.result = DecomposeSupplement(c, sv)]

DecomposeStep ==
    /\ run.pc # "done"
    /\ run' = DecomposeStepOf(run, ch, tval, sval)
    /\ UNCHANGED <<parserVars, decompVars, comp, ctor, ccc, seg>>

\* A call runs to its return: the steps of a call are weakly fair.
SpecDecomposeSteps ==
    InitDecompose /\ [][DecomposeStep]_vars /\ WF_vars(DecomposeStep)

(* C13: decompose(c) terminates with exactly one Decomposed value: the      *)
(* body of the decode loop runs at most once, at most one lookup is made in *)
(* the main trie and at most one in the supplement trie, and the returned   *)
(* value is the one determined by c and the tables.                         *)
C13_DecomposeTerminates ==
    /\ [](run.pc # "idle" =>
            /\ run.iters <= 1 /\ run.trie_reads <= 1 /\ run.supp_reads <= 1
            /\ run.supp_reads <= run.iters
            /\ run.pc = "done" =>
                 /\ run.result = decompose(ch, tval, sval)
                 /\ run.result.kind \in {"Default", "Singleton", "Expansion"})
    /\ <>(run.pc = "done")

\* U+1F71 (oxia) has been decomposed through the loop and the supplement.
C13_Witness ==
    /\ ch = 8049 /\ run.pc = "done"
    /\ run.iters = 1 /\ run.trie_reads = 1 /\ run.supp_reads = 1
    /\ run.result.kind = "Singleton" /\ run.result.a = 940

----------------------------------------------------------------------------
(* Inconsistent data.                                                      *)

(* C14: for any trie value and supplement value, decompose_non_hangul never *)
(* subtracts below zero and reads the tables only inside their bounds:      *)
(* offset - scalars16.len() is formed only for offset >= scalars16.len()    *)
(* and trail_or_complex - 1 only for trail_or_complex >= 1; when an index   *)
(* it would read lies outside its table, or the supplement entry consulted  *)
(* after a break is 0, the result is Default (and a debug assertion fails); *)
(* otherwise the result holds the scalars read from the table.              *)
C14_InconsistentDataYieldsDefault ==
    dec.kind # "none" =>
      LET offset == tval.hi % 4096
          len == (tval.hi \div 8192) + 1
          offset24 == offset - Len(Scalars16)
          soffset == sval.hi - 1
          gigo == dec.kind = "Default" /\ ~dec.asserts
      IN  /\ dec.kind # "Underflow"
          /\ dec.branch = "complex16" =>
               /\ offset < Len(Scalars16) /\ len = 1
               /\ IF offset + 1 >= Len(Scalars16) THEN gigo
                  ELSE /\ dec.kind = "Expansion"
                       /\ dec.a = char_from_u16(Scalars16[offset + 1])
                       /\ dec.b = char_from_u16(Scalars16[offset + 2])
          /\ dec.branch = "complex24" =>
               /\ offset24 >= 0 /\ len <= 2
               /\ IF offset24 >= Len(Scalars24)
                     \/ (len = 2 /\ offset24 + 1 >= Len(Scalars24))
                  THEN gigo
                  ELSE /\ dec.kind = (IF len = 1 THEN "Singleton" ELSE "Expansion")
                       /\ dec.a = char_from_u24(Scalars24[offset24 + 1])
          /\ dec.branch = "supplement" =>
               /\ (sval.hi = 0 /\ sval.lo = 0) => gigo
               /\ (sval.lo = 0 /\ sval.hi # 0) =>
                    /\ soffset >= 0
                    /\ IF soffset + 1 >= Len(SupplementScalars24) THEN gigo
                       ELSE /\ dec.kind = "Expansion"
                            /\ dec.a = char_from_u24(SupplementScalars24[soffset + 1])
                            /\ dec.b = char_from_u24(SupplementScalars24[soffset + 2])

\* The statement with offset + 1 required inside the table on every decode:
\* a single scalar stored last in scalars24 has offset + 1 outside the table
\* and is returned as a Singleton.
C14_Original ==
    dec.kind # "none" =>
      LET offset == tval.hi % 4096
          offset24 == offset - Len(Scalars16)
      IN  /\ dec.kind # "Underflow"
          /\ (dec.branch = "complex16" /\ offset + 1 >= Len(Scalars16)) =>
               dec.kind = "Default"
          /\ (dec.branch = "complex24" /\ offset24 + 1 >= Len(Scalars24)) =>
               dec.kind = "Default"
          /\ (dec.branch = "supplement" /\ sval.hi = 0 /\ sval.lo = 0) =>
               dec.kind = "Default"
          /\ (dec.branch = "supplement" /\ sval.lo = 0 /\ sval.hi # 0
                /\ sval.hi >= Len(SupplementScalars24)) =>
               dec.kind = "Default"

\* A descriptor of length 3 sent U+0041 to the supplement, whose entry for
\* it is 0: the result is Default.
C14_Witness ==
    /\ ch = 65 /\ tval = Pack(0, Descriptor(1, 0, 3)) /\ sval = Pack(0, 0)
    /\ dec.kind = "Default" /\ dec.branch = "supplement" /\ ~dec.asserts

----------------------------------------------------------------------------
(* Construction of CanonicalDecomposition: try_new_unstable.               *)

\* What `data_provider.load(..)?.take_payload()?` can give for one marker:
\* the payload, an error of load, or a response without payload.
LoadOutcomes == {"Ok", "LoadError", "MissingPayload"}

\* A data provider: the outcome of each of the three loads and, for the
\* tables, the lengths of scalars16 and scalars24.
DataProviders ==
    [decompositions : LoadOutcomes,
     tables : LoadOutcomes,
     scalars16_len : {0, 1, 4094, 4095, 4096},
     scalars24_len : {0, 1, 2},
     non_recursive : LoadOutcomes]

TablesReachCapacity(provider) ==
    provider.scalars16_len + provider.scalars24_len >= 4095

\* tables.get().scalars16.len() + tables.get().scalars24.len() > 0xFFF
TablesExceedCapacity(provider) ==
    provider.scalars16_len + provider.scalars24_len > 4095

\* One statement of try_new_unstable: `loads` lists the markers whose load
\* was requested so far, `failed` the marker whose load returned early.
try_new_unstable(st) ==
    LET provider == st.provider
        Load(marker, next) ==
            IF provider[marker] = "Ok"
            THEN [st EXCEPT !.pc = next, !.loads = Append(@, marker)]
            ELSE [st EXCEPT !.pc = "done", !.loads = Append(@, marker),
                            !.res = "Data", !.failed = marker]
    IN  CASE st.pc = "decompositions" -> Load("decompositions", "tables")
          [] st.pc = "tables" -> Load("tables", "check")
          [] st.pc = "check" ->
                IF TablesExceedCapacity(provider)
                THEN [st EXCEPT !.pc = "done", !.res = "FutureExtension"]
                ELSE [st EXCEPT !.pc = "non_recursive"]
          [] st.pc = "non_recursive" -> Load("non_recursive", "construct")
          [] st.pc = "construct" -> [st EXCEPT !.pc = "done", !.res = "Ok"]

InitConstruct ==
    /\ ctor \in [pc : {"decompositions"}, provider : DataProviders,
                 loads : {<<>>}, res : {"none"}, failed : {"none"}]
    /\ comp = Idle /\ run = Idle /\ ccc = Idle /\ seg = Idle
    /\ DecompIdle
    /\ ParserIdle

TryNewUnstable ==
    /\ ctor.pc \notin {"idle", "done"}
    /\ ctor' = try_new_unstable(ctor)
    /\ UNCHANGED <<parserVars, decompVars, comp, run, ccc, seg>>

SpecConstruct == InitConstruct /\ [][TryNewUnstable]_vars

(* C15: try_new_unstable returns Err(FutureExtension) exactly when the      *)
(* decomposition data and the tables both load and scalars16.len() +        *)
(* scalars24.len() is greater than 4095; the supplement is not requested    *)
(* before the check, so an error of one of the first two loads is returned  *)
(* instead of FutureExtension and FutureExtension instead of an error of    *)
(* the supplement load; an instance is constructed only with a sum of at    *)
(* most 4095 and all three payloads.                                        *)
C15_FutureExtensionExactlyOverCapacity ==
    LET provider == ctor.provider
        sum == provider.scalars16_len + provider.scalars24_len
        firstTwo == provider.decompositions = "Ok" /\ provider.tables = "Ok"
        requested == {ctor.loads[i] : i \in 1..Len(ctor.loads)}
    IN  ctor.pc # "idle" =>
          /\ "non_recursive" \in requested => (firstTwo /\ sum <= 4095)
          /\ ctor.pc = "done" =>
               /\ ctor.res = "FutureExtension" <=> (firstTwo /\ sum > 4095)
               /\ ctor.res = "FutureExtension" =>
                    ctor.loads = <<"decompositions", "tables">>
               /\ ~firstTwo =>
                    /\ ctor.res = "Data"
                    /\ ctor.failed = (IF provider.decompositions # "Ok"
                                      THEN "decompositions" ELSE "tables")
               /\ (firstTwo /\ sum <= 4095 /\ provider.non_recursive # "Ok") =>
                    ctor.res = "Data" /\ ctor.failed = "non_recursive"
               /\ ctor.res = "Ok" <=>
                    (firstTwo /\ sum <= 4095 /\ provider.non_recursive = "Ok")
               /\ ctor.res = "Ok" =>
                    ctor.loads = <<"decompositions", "tables", "non_recursive">>

\* 4095 + 1 units with a supplement that cannot be loaded: FutureExtension.
C15_Witness ==
    /\ ctor.pc = "done" /\ ctor.res = "FutureExtension"
    /\ ctor.provider.scalars16_len = 4095 /\ ctor.provider.scalars24_len = 1
    /\ ctor.provider.non_recursive = "LoadError"

----------------------------------------------------------------------------
(* CanonicalCombiningClassMap: get and get_u32.                            *)

\* CanonicalCombiningClass is its numeric value: NotReordered is 0 and Above
\* is 230.

\* trie_value_has_ccc: (trie_value & 0xFFFFFF00) == 0xD800.
trie_value_has_ccc(trie_value) ==
    trie_value.hi = 0 /\ trie_value.lo \div 256 = 216

\* trie_value_indicates_special_non_starter_decomposition:
\* trie_value == SPECIAL_NON_STARTER_DECOMPOSITION_MARKER.
trie_value_indicates_special_non_starter_decomposition(trie_value) ==
    trie_value.hi = 0 /\ trie_value.lo = SPECIAL_NON_STARTER_DECOMPOSITION_MARKER_U16

\* trie.get(c): the value stored for a scalar value; 0 for a surrogate and
\* the error value 0 above U+10FFFF.
TrieGet(c, stored) == IF IsScalarValue(c) THEN stored ELSE Pack(0, 0)

GetU32IgnoringMarker(c, stored) ==
    LET trie_value == TrieGet(c, stored)
    IN  IF trie_value_has_ccc(trie_value) THEN trie_value.lo % 256 ELSE 0

\* get_u32; `trie_value as u8` keeps the low 8 bits.
get_u32(c, stored) ==
    LET trie_value == TrieGet(c, stored)
    IN  IF trie_value_has_ccc(trie_value)
        THEN trie_value.lo % 256
        ELSE IF trie_value_indicates_special_non_starter_decomposition(trie_value)
        THEN IF c \in {832, 833, 835, 836} THEN 230 ELSE 0
        ELSE 0

\* get: self.get_u32(u32::from(c)).
get(c, stored) == get_u32(c, stored)

\* Arguments: U+0061, U+0301, U+0340..U+0344, the three Tibetan vowel signs,
\* a surrogate, U+10FFFF, and two values above the code point range; trie
\* values: 0, the markers, combining classes 0, 230 and 255, values next to
\* the combining-class pattern, a singleton and a pair.
InitCombiningClass ==
    /\ ccc \in [pc : {"get", "get_u32"},
                c : {97, 769, 832, 833, 834, 835, 836, 3955, 3957, 3969,
                     55296, 1114111, 1114112, 2147483647},
                stored : {Pack(0, 0), Pack(1, 0), Pack(2, 0), Pack(3, 0),
                          Pack(55295, 0), Pack(55296, 0), Pack(55526, 0),
                          Pack(55551, 0), Pack(55552, 0), Pack(55526, 1),
                          Pack(2, 1), Pack(937, 0), Pack(65, 778)},
                result : {0 - 1}]
    /\ ccc.pc = "get" => IsScalarValue(ccc.c)
    /\ comp = Idle /\ run = Idle /\ ctor = Idle /\ seg = Idle
    /\ DecompIdle
    /\ ParserIdle

Get ==
    /\ ccc.pc = "get"
    /\ ccc' = [ccc EXCEPT !.pc = "done", !.result = get(ccc.c, ccc.stored)]
    /\ UNCHANGED <<parserVars, decompVars, comp, run, ctor, seg>>

GetU32 ==
    /\ ccc.pc = "get_u32"
    /\ ccc' = [ccc EXCEPT !.pc = "done", !.result = get_u32(ccc.c, ccc.stored)]
    /\ UNCHANGED <<parserVars, decompVars, comp, run, ctor, seg>>

NextCombiningClass == Get \/ GetU32

SpecCombiningClass == InitCombiningClass /\ [][NextCombiningClass]_vars

(* C16: get_u32(c) is the low 8 bits of the trie value when the trie value  *)
(* is 0x0000D8xx; otherwise Above when the trie value is the special        *)
(* non-starter marker and c is U+0340, U+0341, U+0343 or U+0344; otherwise  *)
(* NotReordered, in particular for U+0F73, U+0F75 and U+0F81 under the      *)
(* marker and for every c that is no scalar value; get(c) returns the same  *)
(* as get_u32 of the same code point.                                       *)
C16_CombiningClassLookup ==
    ccc.pc = "done" =>
      LET c == ccc.c
          v == IF c <= 1114111 /\ ~(c >= 55296 /\ c <= 57343)
               THEN ccc.stored ELSE [hi |-> 0, lo |-> 0]
          encodesClass == v.hi = 0 /\ v.lo >= 55296 /\ v.lo <= 55551
          marker == v.hi = 0 /\ v.lo = 2
      IN  /\ encodesClass => ccc.result = v.lo - 55296
          /\ (~encodesClass /\ marker /\ c \in {832, 833, 835, 836}) =>
                ccc.result = 230
          /\ (~encodesClass /\ ~(marker /\ c \in {832, 833, 835, 836})) =>
                ccc.result = 0
          /\ (marker /\ c \in {3955, 3957, 3969}) => ccc.result = 0
          /\ (c > 1114111 \/ (c >= 55296 /\ c <= 57343)) => ccc.result = 0

\* get_u32(0x0301) with the trie value 0xD8E6 is Above.
C16_Witness ==
    /\ ccc.pc = "done" /\ ccc.c = 769 /\ ccc.stored = Pack(55526, 0)
    /\ ccc.result = 230

----------------------------------------------------------------------------
(* The position of the two parser paths.                                   *)

PositionRank(position) ==
    CASE position = "Script" -> 1
      [] position = "Region" -> 2
      [] position = "Variant" -> 3

\* What one step of a path may do to position, script and region; nth is
\* the number of the subtag the step looks at.
PositionStep(old, new) ==
    /\ PositionRank(new.position) >= PositionRank(old.position)
    /\ new.script # old.script =>
          /\ old.script = None /\ old.position = "Script"
          /\ new.position = "Region"
          /\ old.idx = 1 /\ new.script = ScriptFromBytes(input[2])
    /\ new.region # old.region =>
          /\ old.region = None /\ old.position # "Variant"
          /\ new.position = "Variant"

(* C20: within one parse, every step of either path leaves the position    *)
(* where it is or moves it forward in the order Script, Region, Variant;    *)
(* script changes only once, from None, in Script position, to the subtag   *)
(* that directly follows the language; region changes only once, from None, *)
(* and the position is Variant afterwards.                                  *)
C20_PositionNeverRegresses ==
    [][pass' = pass => (PositionStep(g, g') /\ PositionStep(r, r'))]_vars

\* Both paths have taken a script and a region and are in Variant position.
C20_Witness ==
    /\ phase = "done"
    /\ g.position = "Variant" /\ g.script # None /\ g.region # None
    /\ r.position = "Variant" /\ r.script # None /\ r.region # None
    /\ Len(input) >= 4

----------------------------------------------------------------------------
(* Grapheme cluster break iterators.  An iterator is a record: enc and     *)
(* input name the cursor's source, iter is the number of elements the      *)
(* cursor has yielded, current_pos_data is None or <<position, character>>,*)
(* out collects the positions next() has returned, done says that next()   *)
(* has returned None, panic names a panic.                                 *)

\* char::len_utf8
len_utf8(c) == IF c < 128 THEN 1 ELSE IF c < 2048 THEN 2 ELSE IF c < 65536 THEN 3 ELSE 4

\* str::len: the length in bytes.
RECURSIVE str_len(_)
str_len(text) ==
    IF text = <<>> THEN 0 ELSE len_utf8(Head(text)) + str_len(Tail(text))

\* str::char_indices: the <<byte position, char>> pairs.
CharIndices(text) ==
    [i \in 1..Len(text) |-> <<str_len(SubSeq(text, 1, i - 1)), text[i]>>]

\* Latin1Indices: the <<index, byte>> pairs.
Latin1Indices(text) == [i \in 1..Len(text) |-> <<i - 1, text[i]>>]

\* Utf16Indices: a high surrogate directly followed by a low surrogate is one
\* element with the combined code point, any other unit is an element.
RECURSIVE Utf16IndicesFrom(_, _)
Utf16IndicesFrom(text, i) ==
    IF i > Len(text) THEN <<>>
    ELSE IF text[i] \div 1024 = 54 /\ i < Len(text) /\ text[i + 1] \div 1024 = 55
    THEN <<<<i - 1, (text[i] % 1024) * 1024 + (text[i + 1] % 1024) + 65536>>>>
         \o Utf16IndicesFrom(text, i + 2)
    ELSE <<<<i - 1, text[i]>>>> \o Utf16IndicesFrom(text, i + 1)

\* The elements the cursor of an iterator yields.
Elements(enc, text) ==
    CASE enc = "Utf8" -> CharIndices(text)
      [] enc = "Latin1" -> Latin1Indices(text)
      [] enc = "Utf16" -> Utf16IndicesFrom(text, 1)

\* The break property of a character in the rule data: 0 Other, 1 CR, 2 LF,
\* 3 Extend, 4 Regional_Indicator; lone surrogates are Other here.
BreakProperty(c) ==
    IF c = 13 THEN 1
    ELSE IF c = 10 THEN 2
    ELSE IF c >= 768 /\ c <= 879 THEN 3
    ELSE IF c >= 127462 /\ c <= 127487 THEN 4
    ELSE 0

\* The rule table: -128 is a break, -1 keeps, -2 is a failed match, a value
\* >= 0 is an intermediate state.  5 is the state after two regional
\* indicators, 6 the start of text, 7 the end of text.
BreakStateFromTable(left, right) ==
    IF left = 6 THEN 0 - 128
    ELSE IF left = 1 /\ right = 2 THEN 0 - 1
    ELSE IF left \in {1, 2} \/ right \in {1, 2} THEN 0 - 128
    ELSE IF right = 3 THEN 0 - 1
    ELSE IF left = 4 /\ right = 4 THEN 5
    ELSE 0 - 128

\* is_break_from_table
IsBreakFromTable(left, right) ==
    LET rule == BreakStateFromTable(left, right)
    IN  rule # 0 - 1 /\ rule < 0

\* get_current_position_character_len of the three break types.
get_current_position_character_len(it) ==
    CASE it.enc = "Latin1" -> [panic |-> "not reachable", len |-> 0]
      [] it.enc = "Utf8" ->
           IF it.current_pos_data = None
           THEN [panic |-> "unwrap on None", len |-> 0]
           ELSE [panic |-> "none", len |-> len_utf8(it.current_pos_data[2])]
      [] it.enc = "Utf16" ->
           IF it.current_pos_data = None
           THEN [panic |-> "unwrap on None", len |-> 0]
           ELSE [panic |-> "none",
                 len |-> IF it.current_pos_data[2] >= 65536 THEN 2 ELSE 1]

\* next() returns pos (-1 for None) and leaves the iterator as it.
Return(it, pos) == [it |-> it, ret |-> pos]

\* handle_complex_language of the three break types: panic!("not reachable").
handle_complex_language(it) ==
    Return([it EXCEPT !.panic = "not reachable"], 0 - 1)

\* advance_iter: self.current_pos_data = self.iter.next()
advance_iter(it) ==
    LET elements == Elements(it.enc, it.input)
    IN  IF it.iter < Len(elements)
        THEN [it EXCEPT !.iter = @ + 1, !.current_pos_data = elements[it.iter + 1]]
        ELSE [it EXCEPT !.current_pos_data = None]

\* get_current_position
get_current_position(it) ==
    IF it.current_pos_data = None THEN 0 - 1 ELSE it.current_pos_data[1]

\* next(), the branch that serves result_cache.
RECURSIVE CachedBreak(_, _, _)
CachedBreak(it, first_result, i) ==
    IF i = first_result
    THEN Return([it EXCEPT !.result_cache =
                    [k \in 1..(Len(it.result_cache) - 1) |-> it.result_cache[k + 1] - i]],
                get_current_position(it))
    ELSE LET clen == get_current_position_character_len(it)
             ad == advance_iter(it)
         IN  IF clen.panic # "none"
             THEN Return([it EXCEPT !.panic = clen.panic], 0 - 1)
             ELSE IF ad.current_pos_data = None
             THEN Return([ad EXCEPT !.result_cache = <<>>], it.len)
             ELSE CachedBreak(ad, first_result, i + clen.len)

\* next(), the main loop and the loop that reads ahead in an intermediate
\* state with a marker (previous_iter, previous_pos_data) to come back to.
\* The complex property (127) is no property of the grapheme data.
RECURSIVE RuleLoop(_), RuleLookAhead(_, _, _, _)
RuleLoop(it) ==
    IF it.current_pos_data = None THEN Return(it, 0 - 1)
    ELSE
      LET left_prop == BreakProperty(it.current_pos_data[2])
          ad == advance_iter(it)
      IN  IF ad.current_pos_data = None THEN Return(ad, it.len)
          ELSE
            LET right_prop == BreakProperty(ad.current_pos_data[2])
                break_state == BreakStateFromTable(left_prop, right_prop)
            IN  IF right_prop = 127 /\ left_prop # 127
                THEN Return(ad, get_current_position(ad))
                ELSE IF right_prop = 127
                THEN handle_complex_language(ad)
                ELSE IF break_state >= 0
                THEN RuleLookAhead(ad, break_state, ad.iter, ad.current_pos_data)
                ELSE IF IsBreakFromTable(left_prop, right_prop)
                THEN Return(ad, get_current_position(ad))
                ELSE RuleLoop(ad)

RuleLookAhead(it, break_state, previous_iter, previous_pos_data) ==
    LET ad == advance_iter(it)
        restored == [ad EXCEPT !.iter = previous_iter,
                               !.current_pos_data = previous_pos_data]
    IN  IF ad.current_pos_data = None
        THEN IF BreakStateFromTable(break_state, 7) = 0 - 2
             THEN Return(restored, get_current_position(restored))
             ELSE Return(ad, it.len)
        ELSE
          LET state == BreakStateFromTable(break_state, BreakProperty(ad.current_pos_data[2]))
          IN  IF state = 0 - 1 THEN RuleLoop(ad)
              ELSE IF state = 0 - 2
              THEN Return(restored, get_current_position(restored))
              ELSE IF state < 0 THEN Return(ad, get_current_position(ad))
              ELSE IF break_state <= 4
              THEN RuleLookAhead(ad, state, ad.iter, ad.current_pos_data)
              ELSE RuleLookAhead(ad, state, previous_iter, previous_pos_data)

\* RuleBreakIterator::next.  At the start of the text the cursor is advanced
\* once; an empty input yields the single position 0, marked by len = 1.
RuleBreakIterator_next(it) ==
    IF it.result_cache # <<>>
    THEN CachedBreak(it, it.result_cache[1], 0)
    ELSE IF it.current_pos_data = None
    THEN LET ad == advance_iter(it)
         IN  IF ad.current_pos_data = None /\ ad.len = 0
             THEN Return([ad EXCEPT !.len = 1], 0)
             ELSE IF ad.current_pos_data = None THEN Return(ad, 0 - 1)
             ELSE IF IsBreakFromTable(6, BreakProperty(ad.current_pos_data[2]))
             THEN Return(ad, get_current_position(ad))
             ELSE RuleLoop(ad)
    ELSE RuleLoop(it)

\* The fields every segment_* function fills in the same way.
RuleBreakIterator(enc, text, len) ==
    [enc |-> enc, input |-> text, iter |-> 0, len |-> len,
     current_pos_data |-> None, result_cache |-> <<>>,
     out |-> <<>>, done |-> FALSE, panic |-> "none"]

\* A plausible slip: len counted in chars.
SegmentStrLenInChars(text) == RuleBreakIterator("Utf8", text, Len(text))

segment_str(text) == RuleBreakIterator("Utf8", text, str_len(text))

\* A plausible slip: an iterator that starts with a cached result.
SegmentLatin1WithCache(text) ==
    [RuleBreakIterator("Latin1", text, Len(text)) EXCEPT !.result_cache = <<1>>]

segment_latin1(text) == RuleBreakIterator("Latin1", text, Len(text))

\* A plausible slip: an iterator that starts on the first element without
\* having moved its cursor.
SegmentUtf16Primed(text) ==
    [RuleBreakIterator("Utf16", text, Len(text))
        EXCEPT !.current_pos_data = IF text = <<>> THEN None ELSE <<0, text[1]>>]

segment_utf16(text) == RuleBreakIterator("Utf16", text, Len(text))

\* The data the iterators of one segmenter borrow.
GraphemeClusterBreakSegmenter ==
    [payload |-> "GraphemeClusterBreakDataV1", dictionary |-> "default",
     lstm |-> "default"]

\* One call of next() by the owner of the iterator.
IteratorNext(it) ==
    LET res == RuleBreakIterator_next(it)
    IN  IF res.it.panic # "none" THEN res.it
        ELSE IF res.ret < 0 THEN [res.it EXCEPT !.done = TRUE]
        ELSE [res.it EXCEPT !.out = Append(@, res.ret)]

\* Two iterators of one segmenter: the first over any input of up to
\* MaxUnits chars, bytes or code units, the second over one of a few inputs.
\* UTF-8 chars: a, U+0308, CR, LF, U+1F1E6; Latin-1 bytes: a, CR, LF, 0xE9;
\* UTF-16 units: a, U+0308, CR, LF and the surrogates of U+1F1E6.
InitSegment ==
    /\ seg \in
         {[pc |-> "run", segmenter |-> GraphemeClusterBreakSegmenter, a |-> x, b |-> y] :
            x \in {segment_str(i) : i \in BoundedSeq({97, 776, 13, 10, 127462}, MaxUnits)}
                  \cup {segment_latin1(i) : i \in BoundedSeq({97, 13, 10, 233}, MaxUnits)}
                  \cup {segment_utf16(i) :
                          i \in BoundedSeq({97, 776, 13, 10, 55356, 56806}, MaxUnits)},
            y \in {segment_str(<<>>), segment_str(<<97, 776, 127462, 127462, 127462>>),
                   segment_latin1(<<97, 13, 10, 233>>),
                   segment_utf16(<<55356, 56806, 55356, 56806, 776, 55356>>)}}
    /\ comp = Idle /\ run = Idle /\ ctor = Idle /\ ccc = Idle
    /\ DecompIdle
    /\ ParserIdle

NextOfA ==
    /\ ~seg.a.done /\ seg.a.panic = "none"
    /\ seg' = [seg EXCEPT !.a = IteratorNext(seg.a)]
    /\ UNCHANGED <<parserVars, decompVars, comp, run, ctor, ccc>>

NextOfB ==
    /\ ~seg.b.done /\ seg.b.panic = "none"
    /\ seg' = [seg EXCEPT !.b = IteratorNext(seg.b)]
    /\ UNCHANGED <<parserVars, decompVars, comp, run, ctor, ccc>>

NextSegment == NextOfA \/ NextOfB

SpecSegment == InitSegment /\ [][NextSegment]_vars

\* The two iterators.
Iterators == {seg.a, seg.b}

\* The length of an iterator's input: bytes for UTF-8 and Latin-1, code
\* units for UTF-16.
InputLength(it) ==
    IF it.enc = "Utf8" THEN str_len(it.input) ELSE Len(it.input)

\* The positions where an element of the input starts, and its end.
Boundaries(it) ==
    LET elements == Elements(it.enc, it.input)
    IN  {elements[i][1] : i \in 1..Len(elements)} \cup {InputLength(it)}

(* C17: in each encoding the positions an iterator returns are strictly     *)
(* increasing, the first is 0, each is the start of an element of the input *)
(* or its end, there are at most one more of them than elements, and when   *)
(* next() returns None the last one returned is the length of the input.    *)
C17_BreaksIncreaseFromZeroToLength ==
    \A it \in Iterators :
        /\ \A i \in 1..Len(it.out) : it.out[i] \in Boundaries(it)
        /\ \A i \in 1..(Len(it.out) - 1) : it.out[i] < it.out[i + 1]
        /\ Len(it.out) <= Len(Elements(it.enc, it.input)) + 1
        /\ it.out # <<>> => it.out[1] = 0
        /\ it.done => (it.out # <<>> /\ it.out[Len(it.out)] = InputLength(it))

\* "a", U+0308 and U+1F1E6 in UTF-8: breaks at 0, 3 and 7.
C17_Witness ==
    /\ seg.a.enc = "Utf8" /\ seg.a.input = <<97, 776, 127462>>
    /\ seg.a.done /\ seg.a.out = <<0, 3, 7>>

(* C18: no call of next() panics: handle_complex_language is never called,  *)
(* get_current_position_character_len is never called for Latin-1, and      *)
(* never with current_pos_data = None for UTF-8 and UTF-16.                 *)
C18_NoUnreachableHook ==
    \A it \in Iterators : it.panic = "none"

\* A Latin-1 iterator and a UTF-16 iterator over two regional indicators, an
\* Extend and a lone surrogate have both run to their end.
C18_Witness ==
    /\ seg.a.enc = "Latin1" /\ seg.a.input = <<97, 13, 10>> /\ seg.a.done
    /\ seg.a.out = <<0, 1, 3>>
    /\ seg.b.enc = "Utf16" /\ seg.b.done /\ seg.b.out = <<0, 5, 6>>
    /\ seg.a.panic = "none" /\ seg.b.panic = "none"

\* The iterator segment_* returns for the input of it.
FreshIterator(it) ==
    CASE it.enc = "Utf8" -> segment_str(it.input)
      [] it.enc = "Latin1" -> segment_latin1(it.input)
      [] it.enc = "Utf16" -> segment_utf16(it.input)

\* The positions an iterator returns when nothing else runs.
RECURSIVE RunAlone(_)
RunAlone(it) ==
    IF it.done \/ it.panic # "none" THEN it.out ELSE RunAlone(IteratorNext(it))

----------------------------------------------------------------------------
(* Classification of a subtag by position (general path).                  *)

\* The step of the general path's loop looks at a subtag that does not end
\* the loop as a singleton.
GenClassifies ==
    /\ phase = "general" /\ g.pc = "loop" /\ g' # g
    /\ g.idx < Len(input)
    /\ ~(mode # "LanguageIdentifier" /\ Len(input[g.idx + 1]) = 1)

\* The step took the subtag as class cls ("script", "region" or "variant").
GenTook(cls, subtag) ==
    /\ g'.pc = "loop" /\ g'.idx = g.idx + 1
    /\ CASE cls = "script" ->
              /\ g'.script = ScriptFromBytes(subtag) /\ g'.position = "Region"
              /\ g'.region = g.region /\ g'.variants = g.variants
         [] cls = "region" ->
              /\ g'.region = RegionFromBytes(subtag) /\ g'.position = "Variant"
              /\ g'.script = g.script /\ g'.variants = g.variants
         [] cls = "variant" ->
              /\ \E i \in 1..Len(g'.variants) :
                     g'.variants[i] = VariantFromBytes(subtag)
              /\ g'.position = "Variant"
              /\ g'.script = g.script /\ g'.region = g.region

\* The step took nothing: Err(InvalidSubtag) outside Partial mode, and the
\* subtag is not consumed.
GenRejected ==
    /\ g'.pc = "done" /\ g'.idx = g.idx
    /\ g'.script = g.script /\ g'.region = g.region /\ g'.variants = g.variants
    /\ mode # "Partial" => g'.res = "InvalidSubtag"

(* C21: a step of the general path's loop classifies the subtag it looks   *)
(* at by position: in Script position as script if it is one, else region,  *)
(* else variant (next position Region, Variant, Variant); in Region         *)
(* position as region, else variant (both to Variant), never as script; in  *)
(* Variant position only as variant; a subtag of none of the classes its    *)
(* position allows gives Err(InvalidSubtag) in LanguageIdentifier and       *)
(* Locale modes.                                                            *)
C21_ClassifiedByPosition ==
    [][GenClassifies =>
         LET subtag == input[g.idx + 1]
         IN  CASE g.position = "Script" ->
                    IF ScriptOk(subtag) THEN GenTook("script", subtag)
                    ELSE IF RegionOk(subtag) THEN GenTook("region", subtag)
                    ELSE IF VariantOk(subtag) THEN GenTook("variant", subtag)
                    ELSE GenRejected
               [] g.position = "Region" ->
                    IF RegionOk(subtag) THEN GenTook("region", subtag)
                    ELSE IF VariantOk(subtag) THEN GenTook("variant", subtag)
                    ELSE GenRejected
               [] g.position = "Variant" ->
                    IF VariantOk(subtag)
                    THEN GenTook("variant", subtag) \/ g'.res = "InvalidSubtag"
                    ELSE GenRejected]_vars

\* en-latn-latn in LanguageIdentifier mode: the second latn, in Region
\* position, is rejected.
C21_Witness ==
    /\ mode = "LanguageIdentifier" /\ pass = 1
    /\ input = <<SubtagEn, SubtagLatn, SubtagLatn>>
    /\ g.pc = "done" /\ g.res = "InvalidSubtag" /\ g.position = "Region"
    /\ g.script = ScriptFromBytes(SubtagLatn) /\ g.idx = 2

----------------------------------------------------------------------------
(* The restricted path against the general path.                           *)

\* Both results are Ok with the same language, script and region, and the
\* general path's variants are the restricted path's optional variant.
SameIdentifier ==
    /\ g.res = "Ok" /\ r.res = "Ok"
    /\ g.language = r.language /\ g.script = r.script /\ g.region = r.region
    /\ g.variants = (IF r.variant = None THEN <<>> ELSE <<r.variant>>)

(* C22: when both paths have run on the same input in the same mode: in    *)
(* LanguageIdentifier and Partial modes they return the same error, or Ok   *)
(* with the same language, script, region and variant, or the general path  *)
(* returns Ok with two or more variants and the restricted path             *)
(* Err(InvalidSubtag); in Locale mode an Ok of the restricted path comes    *)
(* with an Ok of the general path with the same language, script, region    *)
(* and variant.                                                             *)
C22_RestrictedRefinesGeneral ==
    phase = "done" =>
      IF mode = "Locale"
      THEN r.res = "Ok" => SameIdentifier
      ELSE \/ g.res # "Ok" /\ g.res = r.res
           \/ SameIdentifier
           \/ /\ g.res = "Ok" /\ Len(g.variants) >= 2
              /\ r.res = "InvalidSubtag"

\* en-latn-us-fonipa in LanguageIdentifier mode: both paths return Ok with
\* the variant fonipa.
C22_Witness ==
    /\ phase = "done" /\ mode = "LanguageIdentifier" /\ pass = 1
    /\ input = <<SubtagEn, SubtagLatn, SubtagUs, SubtagFonipa>>
    /\ SameIdentifier /\ r.variant = VariantFromBytes(SubtagFonipa)

----------------------------------------------------------------------------
(* Assertions of the parser paths.                                         *)

(* C23: no debug assertion of the restricted path fails (a variant is      *)
(* accepted in Script or Region position only while none is stored, and the *)
(* last variant branch runs only in Variant position), the restricted path  *)
(* holds no variant in Script or Region position, and the general path's    *)
(* variant list is empty in Script and Region position, so that the         *)
(* insertions made there without a check insert into an empty list.         *)
C23_NoAssertionFails ==
    /\ r.asserts
    /\ r.position \in {"Script", "Region"} => r.variant = None
    /\ g.position \in {"Script", "Region"} => g.variants = <<>>
    /\ g.res \in {"none", "Ok", "InvalidLanguage", "InvalidSubtag"}
    /\ r.res \in {"none", "Ok", "InvalidLanguage", "InvalidSubtag",
                  "InvalidExtension"}

\* en-latn-fonipa: both paths took a variant in Region position.
C23_Witness ==
    /\ phase = "done" /\ pass = 1
    /\ input = <<SubtagEn, SubtagLatn, SubtagFonipa>>
    /\ g.res = "Ok" /\ g.variants = <<VariantFromBytes(SubtagFonipa)>>
    /\ r.res = "Ok" /\ r.variant = VariantFromBytes(SubtagFonipa) /\ r.asserts

----------------------------------------------------------------------------
(* One forward pass.                                                       *)

\* A parse is one sequential call: a step that can be taken is taken.
SpecParserFair == SpecParser /\ WF_vars(NextParser)

\* What one step may do to a path's iterator: old and new are the path's
\* state before and after.
ForwardStep(old, new) ==
    /\ new.idx \in {old.idx, old.idx + 1}
    /\ new.seen >= old.seen
    /\ (old.pc \in {"loop", "extloop"} /\ new.pc = old.pc) => new.idx = old.idx + 1
    /\ (old.pc \in {"loop", "extloop"} /\ new.pc # old.pc) => new.idx = old.idx
    /\ (old.pc = "ext" /\ new.idx # old.idx) =>
          /\ ExtensionTypeFromBytes(input[old.idx + 1]) = "Unicode"
          /\ new.pc = "done" => (new.res = "InvalidSubtag" /\ new.seen = new.idx + 1)

\* The iterator has examined nothing beyond the subtag after the consumed
\* ones.
NoLookahead(st) ==
    st.idx <= Len(input) /\ st.seen \in {st.idx, st.idx + 1} /\ st.seen <= Len(input)

(* C24 as stated: with the rest of C24, the singleton at which the main     *)
(* loop of the restricted path broke is never consumed.                     *)
C24_Original ==
    (/\ mode \in {"Locale", "Partial"} /\ r.pc \in {"ext", "extloop", "done"}
     /\ RsReachesSingleton(input, mode))
    => (NoLookahead(r) /\ r.idx = FirstSingleton(input) - 1)

(* C24, amended: every parse of either path ends; a loop iteration either  *)
(* leaves its loop (break or return) without consuming the subtag it looked *)
(* at, or consumes exactly that one subtag; the iterator never moves back   *)
(* and nothing beyond the next subtag is examined.  The singleton `u` at    *)
(* which the restricted path's main loop breaks in Locale mode is consumed  *)
(* afterwards, by the extension section.                                    *)
C24_SingleForwardPass ==
    /\ [](NoLookahead(g) /\ NoLookahead(r))
    /\ [][pass' = pass => (ForwardStep(g, g') /\ ForwardStep(r, r'))]_vars
    /\ (phase # "done") ~> (phase = "done")

\* en-u-us in Locale mode: the restricted path has consumed all three
\* subtags, the general path stopped before `u`.
C24_Witness ==
    /\ phase = "done" /\ mode = "Locale"
    /\ input = <<SubtagEn, SubtagU, SubtagUs>>
    /\ g.res = "Ok" /\ g.idx = 1 /\ g.seen = 2
    /\ r.res = "Ok" /\ r.idx = 3 /\ r.seen = 3

----------------------------------------------------------------------------
(* Subtags after the Unicode extension singleton.                          *)

(* C25: in the restricted path in Locale mode an Ok result means that every *)
(* subtag of the input was consumed.                                        *)
C25_OkConsumesEverything ==
    (mode = "Locale" /\ r.pc = "done" /\ r.res = "Ok") => r.idx = Len(input)

----------------------------------------------------------------------------
(* decompose and the combining-class lookup on the same trie value.        *)

(* C26: whenever get_u32(c) takes the combining class from the trie value, *)
(* decompose(c) is Default; whenever get_u32(c) is Above through the        *)
(* special-marker branch, decompose(c) is a Singleton or an Expansion.      *)
C26_LookupsAgreeOnTrieValue ==
    (dec.kind # "none" /\ ch \notin HangulSyllables) =>
      LET trie_value == TrieGet(ch, tval)
      IN  /\ trie_value_has_ccc(trie_value) => dec.kind = "Default"
          /\ (/\ ~trie_value_has_ccc(trie_value)
              /\ trie_value_indicates_special_non_starter_decomposition(trie_value)
              /\ get_u32(ch, tval) = 230)
             => dec.kind \in {"Singleton", "Expansion"}

----------------------------------------------------------------------------
(* The branches of decompose_non_hangul.                                   *)

\* The main-trie value holds two BMP characters: lead above the
\* non-round-trip marker and a trail that is not zero.
TwoBmp == ch \notin HangulSyllables /\ tval.lo > 1 /\ tval.hi # 0

(* C27: with a main-trie value of two BMP characters, decompose(c) for c in *)
(* U+1F71..U+1FFB is what the supplement value of c decodes to (Singleton   *)
(* of the supplement's lead for a lead without trail, as in decompose(      *)
(* U+1F71) = Singleton(U+03AC)), and for every other c it is Expansion(lead,*)
(* trail) whatever the supplement holds.                                    *)
C27_OxiaRangeUsesSupplement ==
    (dec.kind # "none" /\ TwoBmp) =>
      IF ch >= 8049 /\ ch <= 8187
      THEN /\ dec.branch = "supplement"
           /\ dec = DecomposeSupplement(ch, sval)
           /\ (sval.lo # 0 /\ sval.hi = 0) =>
                 (dec.kind = "Singleton" /\ dec.a = sval.lo)
      ELSE /\ dec.kind = "Expansion" /\ dec.branch = "bmp"
           /\ dec.a = tval.lo /\ dec.b = tval.hi

\* decompose(U+1F71) with the supplement value U+03AC.
C27_Witness ==
    /\ ch = 8049 /\ tval = Pack(65, 778) /\ sval = Pack(940, 0)
    /\ dec.kind = "Singleton" /\ dec.a = 940 /\ dec.branch = "supplement"

\* The main-trie value holds one BMP character or a marker: lead above the
\* non-round-trip marker and a zero trail.
OneBmp == ch \notin HangulSyllables /\ tval.lo > 1 /\ tval.hi = 0

(* C28: with a main-trie value whose lead is the special non-starter marker *)
(* and whose trail is zero, decompose(c) is Singleton(U+0300), Singleton(   *)
(* U+0301), Singleton(U+0313), Expansion(U+0308, U+0301), Expansion(U+0F71, *)
(* U+0F72), Expansion(U+0F71, U+0F74), Expansion(U+0F71, U+0F80) for U+0340,*)
(* U+0341, U+0343, U+0344, U+0F73, U+0F75, U+0F81 and Default for any other *)
(* c; with any other lead above the non-round-trip marker and a zero trail  *)
(* it is Singleton(lead).                                                   *)
C28_SpecialNonStarterTable ==
    (dec.kind # "none" /\ OneBmp) =>
      IF tval.lo = 2
      THEN <<dec.kind, dec.a, dec.b>> =
             CASE ch = 832 -> <<"Singleton", 768, 0>>
               [] ch = 833 -> <<"Singleton", 769, 0>>
               [] ch = 835 -> <<"Singleton", 787, 0>>
               [] ch = 836 -> <<"Expansion", 776, 769>>
               [] ch = 3955 -> <<"Expansion", 3953, 3954>>
               [] ch = 3957 -> <<"Expansion", 3953, 3956>>
               [] ch = 3969 -> <<"Expansion", 3953, 3968>>
               [] OTHER -> <<"Default", 0, 0>>
      ELSE <<dec.kind, dec.a, dec.b>> = <<"Singleton", tval.lo, 0>>

----------------------------------------------------------------------------
(* The complex descriptor.                                                 *)

\* The trie value of a non-Hangul c is decoded as a complex descriptor: it
\* is above the backward-combining marker and its lead is not above the
\* non-round-trip marker.
ComplexDescriptor ==
    /\ dec.kind # "none"
    /\ ch \notin HangulSyllables
    /\ ~U32AtMost(tval, BACKWARD_COMBINING_STARTER_MARKER)
    /\ tval.lo <= NON_ROUND_TRIP_MARKER

\* The upper half of the trie value with bit 12 inverted.
OtherNonStarterBit ==
    IF (tval.hi \div 4096) % 2 = 1 THEN tval.hi - 4096 ELSE tval.hi + 4096

(* C29: for a complex descriptor of a c other than U+212B, with offset the *)
(* low 12 bits and n the bits 15..13 of the upper half: an offset below    *)
(* scalars16.len() gives Expansion(scalars16[offset], scalars16[offset+1]) *)
(* for n = 0 and the supplement path otherwise; an offset from             *)
(* scalars16.len() on indexes scalars24 at offset - scalars16.len() and    *)
(* gives Singleton for n = 0, Expansion for n = 1 and the supplement path  *)
(* for n >= 2 (the entries named being those the tables hold); the value   *)
(* with bit 12 inverted, when it is a descriptor too, gives the same       *)
(* result; and for U+212B the result is Singleton(U+00C5) whatever the     *)
(* descriptor.                                                             *)
C29_ComplexDescriptorDecoding ==
    ComplexDescriptor =>
      LET offset == tval.hi % 4096
          n == tval.hi \div 8192
          offset24 == offset - Len(Scalars16)
          result == <<dec.kind, dec.a, dec.b>>
          supplement == dec = DecomposeSupplement(ch, sval)
      IN  IF ch = 8491 THEN result = <<"Singleton", 197, 0>>
          ELSE
            /\ (offset < Len(Scalars16) /\ n = 0 /\ offset + 1 < Len(Scalars16)) =>
                 result = <<"Expansion", Scalars16[offset + 1], Scalars16[offset + 2]>>
            /\ (offset < Len(Scalars16) /\ n # 0) => supplement
            /\ (offset >= Len(Scalars16) /\ n = 0 /\ offset24 < Len(Scalars24)) =>
                 result = <<"Singleton", Scalars24[offset24 + 1], 0>>
            /\ (offset >= Len(Scalars16) /\ n = 1 /\ offset24 + 1 < Len(Scalars24)) =>
                 result = <<"Expansion", Scalars24[offset24 + 1], Scalars24[offset24 + 2]>>
            /\ (offset >= Len(Scalars16) /\ n >= 2) => supplement
            /\ OtherNonStarterBit # 0 =>
                 dec = decompose(ch, Pack(tval.lo, OtherNonStarterBit), sval)

\* U+0041 with a descriptor of length 1 at offset 6, the bit 12 set: the
\* third scalar of scalars24 as a Singleton.
C29_Witness ==
    /\ ch = 65 /\ tval = Pack(0, Descriptor(0, 1, 6))
    /\ dec.kind = "Singleton" /\ dec.a = 194564 /\ dec.branch = "complex24"

----------------------------------------------------------------------------
(* The fallback path.                                                      *)

\* The decode loop of decompose_non_hangul is left by a break: a two-BMP
\* value of a c in the oxia range, or a complex descriptor of a length that
\* the tables do not hold.
Fallback ==
    LET offset == tval.hi % 4096
        n == tval.hi \div 8192
    IN  /\ ch \notin HangulSyllables
        /\ ~U32AtMost(tval, BACKWARD_COMBINING_STARTER_MARKER)
        /\ \/ tval.lo > NON_ROUND_TRIP_MARKER /\ tval.hi # 0
              /\ ch >= 8049 /\ ch <= 8187
           \/ /\ tval.lo <= NON_ROUND_TRIP_MARKER /\ ch # 8491
              /\ \/ offset < Len(Scalars16) /\ n # 0
                 \/ offset >= Len(Scalars16) /\ n >= 2

(* C30: on the fallback path the supplement trie value of c decides the    *)
(* result alone: 0 gives Default; a non-zero lead with a non-zero trail    *)
(* gives Expansion(lead, trail); a non-zero lead with zero trail gives     *)
(* Singleton(lead), the value 1 of the backward-combining marker included; *)
(* a zero lead gives Expansion(scalars24[trail - 1], scalars24[trail]) of  *)
(* the supplement's own scalars24 (the entries being those the table       *)
(* holds).  The supplement is consulted on the fallback path only.         *)
C30_SupplementDecoding ==
    dec.kind # "none" =>
      LET lead == sval.lo
          trail == sval.hi
          result == <<dec.kind, dec.a, dec.b>>
      IN  /\ dec.branch = "supplement" <=> Fallback
          /\ Fallback =>
               /\ (lead = 0 /\ trail = 0) => result = <<"Default", 0, 0>>
               /\ (lead # 0 /\ trail # 0) => result = <<"Expansion", lead, trail>>
               /\ (lead # 0 /\ trail = 0) => result = <<"Singleton", lead, 0>>
               /\ (lead = 0 /\ trail # 0 /\ trail < Len(SupplementScalars24)) =>
                    result = <<"Expansion", SupplementScalars24[trail],
                               SupplementScalars24[trail + 1]>>

\* U+1F71 has a two-BMP value in the main trie and the value 1 in the
\* supplement: Singleton(U+0001), not Default.
C30_Witness ==
    /\ ch = 8049 /\ tval = Pack(65, 778) /\ sval = Pack(1, 0)
    /\ dec.kind = "Singleton" /\ dec.a = 1 /\ dec.branch = "supplement"

====
